---- MODULE Spec2Model ----
(***************************************************************************)
(* A model of linehaul: the line framer (linehaul/protocol/line_receiver), *)
(* the connection handlers, the bounded input queue and the batching       *)
(* sender (linehaul/server.py), and one send task with its retry policy.   *)
(*                                                                         *)
(* Three specifications share the module:                                  *)
(*   SpecLR      one LineReceiver fed a byte stream in arbitrary chunks    *)
(*   SpecServer  handlers, queue, sender and compute_batches               *)
(*   SpecSend    one send_batch call against a failing or working sink     *)
(***************************************************************************)
EXTENDS Integers, Sequences, FiniteSets, TLC

\* Python's Optional: None is the empty tuple, a value x is <<x>>
None == <<>>
Some(x) == <<x>>

Range(s) == {s[i] : i \in 1..Len(s)}

Min(a, b) == IF a <= b THEN a ELSE b

RECURSIVE SeqsUpTo(_, _)
SeqsUpTo(S, n) ==
    IF n = 0 THEN {<<>>}
    ELSE LET shorter == SeqsUpTo(S, n - 1)
         IN  shorter \cup {Append(s, x) : s \in {t \in shorter : Len(t) = n - 1}, x \in S}

(***************************************************************************)
(* Bounds of the model.                                                    *)
(***************************************************************************)
MaxStream == 5
MaxChunk == 3
MaxLineSizeArg == 3
MaxOverBy == 2
MaxRecords == 3
MaxEventsPerRead == 2
MaxSendWindow == 2
MaxAttemptsArg == 3
MaxWaitArg == 3
MaxMultiplierArg == 2
MaxCalls == 4            \* the calls of one ParserSet
MaxQueueCalls == 6       \* the put_nowait and get_nowait calls on one queue

(***************************************************************************)
(* LineReceiver (linehaul/protocol/line_receiver.py)                       *)
(***************************************************************************)
VARIABLES
    lr_arg,            \* the max_line_size argument given to __init__
    lr_max_line_size,  \* self._max_line_size
    lr_buffer,         \* self._buffer
    lr_searched,       \* self._searched
    lrState,           \* "open", "failed" (a call raised BufferTooLargeError), "closed"
    lrStream,          \* every byte handed to receive_data so far
    lrLines,           \* concatenation of the lists receive_data returned
    lrLast             \* the last call: its name, its outcome, what it returned,
                       \* whether it was the first call (fresh) or followed a raise (again)

lrVars == <<lr_arg, lr_max_line_size, lr_buffer, lr_searched, lrState, lrStream,
            lrLines, lrLast>>

NL == 10
DefaultMaxLineSize == 16384

\* the bytes of the streams: the newline, the zero byte and the letter "a"
Alphabet == {NL, 0, 97}

Chunks == SeqsUpTo(Alphabet, MaxChunk)

\* bytes(n): n zero bytes
Zeros(n) == [i \in 1..n |-> 0]

\* LineReceiver.__init__: the default of max_line_size
InitMaxLineSize(arg) == IF arg = None THEN DefaultMaxLineSize ELSE arg[1]

\* bytearray.index(b"\n", start): the 0-based offset of the first newline at or
\* after offset start, or -1 for ValueError
RECURSIVE Index(_, _)
Index(buf, start) ==
    IF start >= Len(buf) THEN -1
    ELSE IF buf[start + 1] = NL THEN start
    ELSE Index(buf, start + 1)

\* the callback of the receiver: the identity (lambda line: line)
Callback(line) == Some(line)

\* (faulty variant: the limit applied to an unterminated line only)
TooLargeUnterminatedOnly(buf, max) == Index(buf, 0) = -1 /\ Len(buf) > max
\* (faulty variant: the limit taken one byte too high)
TooLargeOffByOne(buf, max) == Len(buf) > max + 1
\* len(self._buffer) > self._max_line_size
TooLarge(buf, max) == Len(buf) > max

\* (faulty variant: the slice deletes one byte past the newline)
DelPrefixOneTooMany(buf, found) == SubSeq(buf, found + 3, Len(buf))
\* del self._buffer[: found + 1]
DelPrefix(buf, found) == SubSeq(buf, found + 2, Len(buf))

\* the while loop of receive_data
RECURSIVE ReceiveLoop(_, _, _)
ReceiveLoop(buf, searched, lines) ==
    LET found == Index(buf, searched)
    IN  IF found = -1
        THEN [buffer |-> buf, searched |-> Len(buf), lines |-> lines]
        ELSE LET line == Callback(SubSeq(buf, 1, found + 1))
             IN  ReceiveLoop(DelPrefix(buf, found), 0,
                             IF line # None THEN Append(lines, line[1]) ELSE lines)

\* LineReceiver.receive_data(data)
ReceiveData(data) ==
    /\ lrState \in {"open", "failed"}
    /\ lrStream' = lrStream \o data
    /\ LET buf == lr_buffer \o data
       IN  IF TooLarge(buf, lr_max_line_size)
           THEN /\ lr_buffer' = buf
                /\ lrState' = "failed"
                /\ lrLast' = [op |-> "receive_data", fresh |-> lrLast.op = "none",
                              again |-> lrState = "failed",
                              result |-> "BufferTooLargeError", returned |-> <<>>,
                              line |-> <<>>]
                /\ UNCHANGED <<lr_searched, lrLines>>
           ELSE LET r == ReceiveLoop(buf, lr_searched, <<>>)
                IN  /\ lr_buffer' = r.buffer
                    /\ lr_searched' = r.searched
                    /\ lrLines' = lrLines \o r.lines
                    /\ lrLast' = [op |-> "receive_data", fresh |-> lrLast.op = "none",
                                  again |-> lrState = "failed",
                                  result |-> "returned", returned |-> r.lines,
                                  line |-> <<>>]
                    /\ UNCHANGED lrState
    /\ UNCHANGED <<lr_arg, lr_max_line_size>>

\* (faulty variant: the error carries everything received, not the leftover)
TruncatedLineWholeStream(buf, stream) == stream
\* the line a TruncatedLineError carries: bytes(self._buffer)
TruncatedLine(buf, stream) == buf

\* LineReceiver.close()
Close ==
    /\ lrState = "open"
    /\ lrState' = "closed"
    /\ lrLast' = IF Len(lr_buffer) # 0
                 THEN [op |-> "close", fresh |-> lrLast.op = "none",
                       again |-> lrState = "failed",
                       result |-> "TruncatedLineError", returned |-> <<>>,
                       line |-> TruncatedLine(lr_buffer, lrStream)]
                 ELSE [op |-> "close", fresh |-> lrLast.op = "none",
                       again |-> lrState = "failed",
                       result |-> "returned", returned |-> <<>>, line |-> <<>>]
    /\ UNCHANGED <<lr_arg, lr_max_line_size, lr_buffer, lr_searched, lrStream, lrLines>>

\* LineReceiver(callback, max_line_size=arg)
LRInit ==
    /\ lr_arg \in {None} \cup {Some(n) : n \in 1..MaxLineSizeArg}
    /\ lr_max_line_size = InitMaxLineSize(lr_arg)
    /\ lr_buffer = <<>>
    /\ lr_searched = 0
    /\ lrState = "open"
    /\ lrStream = <<>>
    /\ lrLines = <<>>
    /\ lrLast = [op |-> "none", fresh |-> FALSE, again |-> FALSE, result |-> "none", returned |-> <<>>,
                 line |-> <<>>]

\* receive_data on a chunk of a stream cut into arbitrary pieces
ReceiveChunk ==
    \E data \in Chunks :
        /\ Len(lrStream) + Len(data) <= MaxStream
        /\ ReceiveData(data)

\* receive_data(bytes(lr._max_line_size + over_by)) on a fresh receiver
ReceiveOversized ==
    \E over_by \in 1..MaxOverBy :
        /\ lrLast.op = "none"
        /\ ReceiveData(Zeros(lr_max_line_size + over_by))


(***************************************************************************)
(* compute_batches and its helpers (linehaul/server.py, "Non I/O").        *)
(* A Download is [id, timestamp]: id stands for the identity of the Python *)
(* object (two records may be equal in every field), timestamp is the      *)
(* arrow.Arrow instant, held as whole seconds since the epoch, UTC.        *)
(***************************************************************************)
\* the proleptic Gregorian date of a day number counted from 1970-01-01
\* (what arrow renders the tokens YYYY, MM and DD from)
CivilFromDays(days) ==
    LET z == days + 719468
        era == z \div 146097
        doe == z - era * 146097
        yoe == (doe - doe \div 1460 + doe \div 36524 - doe \div 146096) \div 365
        doy == doe - (365 * yoe + yoe \div 4 - yoe \div 100)
        mp == (5 * doy + 2) \div 153
        d == doy - (153 * mp + 2) \div 5 + 1
        m == IF mp < 10 THEN mp + 3 ELSE mp - 9
        y == yoe + era * 400 + (IF m <= 2 THEN 1 ELSE 0)
    IN  [year |-> y, month |-> m, day |-> d]

\* (faulty variant: the format string mistyped as "YYYYMDDD", the month unpadded
\* and the day of the year in place of the day of the month)
extract_item_date_YYYYMDDD(item) ==
    LET days == item.timestamp \div 86400
        c == CivilFromDays(days)
        newYear == CHOOSE d \in (days - 366)..days :
                      CivilFromDays(d) = [year |-> c.year, month |-> 1, day |-> 1]
    IN  c.year * 10000 + c.month * 1000 + (days - newYear + 1)
\* item.timestamp.format("YYYYMMDD"): the eight digits, as the number they spell
extract_item_date(item) ==
    LET c == CivilFromDays(item.timestamp \div 86400)
    IN  c.year * 10000 + c.month * 100 + c.day

\* sorted(all_items, key=extract_item_date): a stable sort
RECURSIVE InsertByDate(_, _)
InsertByDate(sorted, item) ==
    IF sorted = <<>> THEN <<item>>
    ELSE IF extract_item_date(sorted[Len(sorted)]) <= extract_item_date(item)
         THEN Append(sorted, item)
         ELSE Append(InsertByDate(SubSeq(sorted, 1, Len(sorted) - 1), item),
                     sorted[Len(sorted)])

RECURSIVE SortByDate(_)
SortByDate(items) ==
    IF items = <<>> THEN <<>>
    ELSE InsertByDate(SortByDate(SubSeq(items, 1, Len(items) - 1)), items[Len(items)])

sorted(items) == SortByDate(items)

\* itertools.groupby(items, extract_item_date): the runs of consecutive items
\* with equal keys, each run from where the key changes to where it changes next
groupby(items) ==
    LET n == Len(items)
        starts == {i \in 1..n :
                      i = 1 \/ extract_item_date(items[i]) # extract_item_date(items[i - 1])}
        start(g) == CHOOSE i \in starts : Cardinality({j \in starts : j <= i}) = g
        end(g) == IF g = Cardinality(starts) THEN n ELSE start(g + 1) - 1
    IN  [g \in 1..Cardinality(starts) |-> SubSeq(items, start(g), end(g))]

\* _cattr.unstructure(item): the row's json, its timestamp as o.float_timestamp
unstructure(item) == [id |-> item.id, timestamp |-> item.timestamp]

\* str(uuid.uuid4()): the n-th identifier drawn in the run
uuid4(n) == n

\* (faulty variant: one identifier drawn per batch and shared by its rows)
RowsSharingOneId(items, drawn) ==
    [i \in 1..Len(items) |-> [insertId |-> uuid4(drawn + 1), json |-> unstructure(items[i])]]
\* (faulty variant: records equal in every field collapse into one row)
RowsSkippingEqualValues(items, drawn) ==
    LET keep == {i \in 1..Len(items) :
                    \A j \in 1..(i - 1) : items[j].timestamp # items[i].timestamp}
        nth(k) == CHOOSE i \in keep : Cardinality({j \in keep : j <= i}) = k
    IN  [k \in 1..Cardinality(keep) |->
            [insertId |-> uuid4(drawn + k), json |-> unstructure(items[nth(k)])]]
\* [{"insertId": str(uuid.uuid4()), "json": row} for row in _cattr.unstructure(items)]
\* drawn is the number of identifiers drawn before this list is built
Rows(items, drawn) ==
    [i \in 1..Len(items) |-> [insertId |-> uuid4(drawn + i), json |-> unstructure(items[i])]]

\* the number of items in the groups before group g
RECURSIVE ItemsBefore(_, _)
ItemsBefore(groups, g) ==
    IF g = 1 THEN 0 ELSE ItemsBefore(groups, g - 1) + Len(groups[g - 1])

\* compute_batches(all_items): the (template_suffix, batch) pairs it yields
compute_batches(all_items, drawn) ==
    LET groups == groupby(sorted(all_items))
    IN  [g \in 1..Len(groups) |->
            [template_suffix |-> extract_item_date(groups[g][1]),
             batch |-> Rows(groups[g], drawn + ItemsBefore(groups, g))]]

(***************************************************************************)
(* server(): the connection handlers, the input queue and the sender       *)
(* (linehaul/server.py, "I/O Functions" and "Main Entry point").           *)
(***************************************************************************)
VARIABLES
    qsize,        \* the capacity given to trio.Queue
    batch_size,   \* sender's batch_size after its default is applied
    q,            \* the input queue, oldest record first
    hpc,          \* per connection: "recv" (awaiting receive_some), "put" (awaiting
                  \* q.put), "exit" (the handler returned)
    hpending,     \* per connection: the events of the last receive_data not yet put
    created,      \* the number of Download records parsed so far
    putCount,     \* per record id: how many q.put(event) calls completed with it
    getCount,     \* per record id: how many q.get() calls returned it
    batch,        \* sender's batch of the open compose window
    drawn,        \* the number of uuid4 identifiers drawn so far
    lastWindow,   \* the records the last closed compose window collected
    lastTasks,    \* the (template_suffix, batch) pairs started for that window
    issued        \* <<record id, insertId>> of every row handed to a send task so far

serverVars == <<qsize, batch_size, q, hpc, hpending, created, putCount, getCount, batch, drawn,
                lastWindow, lastTasks, issued>>

DefaultBatchSize == 500

\* 1970-01-31T23:59:59Z, 1970-02-01T00:00:00Z and 1972-02-29T12:00:00Z
Timestamps == {2678399, 2678400, 68212800}

\* the connections accepted in a run
Connections == {1, 2}

\* the qsize and batch_size arguments server() is run with
QueueSizes == {1, 2}
BatchSizeArgs == {None, Some(2)}

\* sender: the default of batch_size
SenderBatchSize(arg) == IF arg = None THEN DefaultBatchSize ELSE arg[1]

\* the events of one receive_data call: n new records parsed from the chunk
NewEvents(stamps) ==
    [i \in 1..Len(stamps) |-> [id |-> created + i, timestamp |-> stamps[i]]]

\* (faulty variant: an unbounded queue, put never waits)
PutIgnoresCapacity(queue, capacity) == TRUE
\* await q.put(event): room in the queue, or the task stays suspended
CanPut(queue, capacity) == Len(queue) < capacity

\* handle_connection: data = await stream.receive_some(recv_size) returned bytes and
\* lr.receive_data(data) returned events; the for loop starts putting them
Recv(h) ==
    /\ hpc[h] = "recv"
    /\ \E stamps \in SeqsUpTo(Timestamps, MaxEventsPerRead) :
          /\ stamps # <<>>
          /\ created + Len(stamps) <= MaxRecords
          /\ hpending' = [hpending EXCEPT ![h] = NewEvents(stamps)]
          /\ created' = created + Len(stamps)
    /\ hpc' = [hpc EXCEPT ![h] = "put"]
    /\ UNCHANGED <<qsize, batch_size, q, putCount, getCount, batch, drawn, lastWindow,
                   lastTasks, issued>>

\* handle_connection: one await q.put(event) of the for loop completes
Put(h) ==
    /\ hpc[h] = "put"
    /\ CanPut(q, qsize)
    /\ q' = Append(q, Head(hpending[h]))
    /\ hpending' = [hpending EXCEPT ![h] = Tail(hpending[h])]
    /\ hpc' = [hpc EXCEPT ![h] = IF Tail(hpending[h]) = <<>> THEN "recv" ELSE "put"]
    /\ putCount' = [putCount EXCEPT ![Head(hpending[h]).id] = @ + 1]
    /\ UNCHANGED <<qsize, batch_size, created, getCount, batch, drawn, lastWindow,
                   lastTasks, issued>>

\* handle_connection: receive_some returned b"" (or the stream broke) and lr.close()
\* ran, or receive_data raised BufferTooLargeError: the handler leaves its loop
HandlerExit(h) ==
    /\ hpc[h] = "recv"
    /\ hpc' = [hpc EXCEPT ![h] = "exit"]
    /\ UNCHANGED <<qsize, batch_size, q, hpending, created, putCount, getCount, batch,
                   drawn, lastWindow, lastTasks, issued>>

\* (faulty variant: the record that ended the window is not in its batch)
DispatchWithoutLast(window) ==
    \E tasks \in {compute_batches(SubSeq(window, 1, Len(window) - 1), drawn)} :
        /\ lastWindow' = window
        /\ lastTasks' = tasks
        /\ drawn' = drawn + Len(window)
        /\ issued' = issued \cup
               {<<tasks[p[1]].batch[p[2]].json.id, tasks[p[1]].batch[p[2]].insertId>> :
                    p \in {p2 \in (1..Len(tasks)) \X (1..Len(window)) :
                              p2[2] <= Len(tasks[p2[1]].batch)}}
        /\ batch' = <<>>
\* sender: the compose window is over; compute_batches(batch) and one
\* nursery.start_soon(send_batch, ...) per pair it yields
Dispatch(window) ==
    \E tasks \in {compute_batches(window, drawn)} :
        /\ lastWindow' = window
        /\ lastTasks' = tasks
        /\ drawn' = drawn + Len(window)
        /\ issued' = issued \cup
               {<<tasks[p[1]].batch[p[2]].json.id, tasks[p[1]].batch[p[2]].insertId>> :
                    p \in {p2 \in (1..Len(tasks)) \X (1..Len(window)) :
                              p2[2] <= Len(tasks[p2[1]].batch)}}
        /\ batch' = <<>>

\* sender: batch.append(await q.get()); when that fills the batch the window ends
SenderGet ==
    /\ q # <<>>
    /\ Len(batch) < batch_size
    /\ q' = Tail(q)
    /\ getCount' = [getCount EXCEPT ![Head(q).id] = @ + 1]
    /\ IF Len(batch) + 1 = batch_size
       THEN Dispatch(Append(batch, Head(q)))
       ELSE /\ batch' = Append(batch, Head(q))
            /\ UNCHANGED <<drawn, lastWindow, lastTasks, issued>>
    /\ UNCHANGED <<qsize, batch_size, hpc, hpending, created, putCount>>

\* sender: trio.move_on_after(batch_timeout) expires while q.get() waits
BatchTimeout ==
    /\ Len(batch) < batch_size
    /\ Dispatch(batch)
    /\ UNCHANGED <<qsize, batch_size, q, hpc, hpending, created, putCount, getCount>>

\* server(): q = trio.Queue(qsize), the sender started, the listener accepting
ServerInit ==
    /\ qsize \in QueueSizes
    /\ batch_size \in {SenderBatchSize(arg) : arg \in BatchSizeArgs}
    /\ q = <<>>
    /\ hpc = [h \in Connections |-> "recv"]
    /\ hpending = [h \in Connections |-> <<>>]
    /\ created = 0
    /\ putCount = [id \in 1..MaxRecords |-> 0]
    /\ getCount = [id \in 1..MaxRecords |-> 0]
    /\ batch = <<>>
    /\ drawn = 0
    /\ lastWindow = <<>>
    /\ lastTasks = <<>>
    /\ issued = {}

(***************************************************************************)
(* One send task: send_batch, actually_send_batch under tenacity's retry,  *)
(* and BigQuery.insert_all (linehaul/server.py, linehaul/bigquery).        *)
(* Durations are whole seconds; retry_multiplier is held doubled, so the   *)
(* default of 0.5 s is 1.                                                  *)
(***************************************************************************)
VARIABLES
    retry_max_attempts,    \* send_batch's retry_max_attempts after its default
    retry_max_wait,        \* send_batch's retry_max_wait after its default
    retry_multiplier_x2,   \* twice send_batch's retry_multiplier after its default
    template_suffix,       \* the template_suffix the task was started with
    send_rows,             \* the batch (list of rows) the task was started with
    sendState,             \* "attempting", "sleeping" (trio.sleep of the retry), "done"
    attempt_number,        \* tenacity's statistics["attempt_number"]
    calls,                 \* the number of bq.insert_all calls made
    firstCall,             \* the rows and suffix given to the first insert_all call
    lastCall,              \* the rows and suffix given to the latest insert_all call
    lastFailure,           \* what the latest attempt raised, None if it returned
    onlyTransient,         \* every attempt so far was answered 503 by the sink
    sleeps,                \* the retry sleeps so far, in seconds
    logs,                  \* the log records emitted: [level, items]
    escaped                \* an exception left send_batch

sendVars == <<retry_max_attempts, retry_max_wait, retry_multiplier_x2, template_suffix,
              send_rows, sendState, attempt_number, calls, firstCall, lastCall,
              lastFailure, onlyTransient, sleeps, logs, escaped>>

DefaultRetryMaxAttempts == 10
DefaultRetryMaxWait == 60
DefaultRetryMultiplierX2 == 1
LoggingWARNING == 30
LoggingERROR == 40
HttpOK == 200

\* send_batch: the defaults of its retry arguments
SendRetryMaxAttempts(arg) == IF arg = None THEN DefaultRetryMaxAttempts ELSE arg[1]
SendRetryMaxWait(arg) == IF arg = None THEN DefaultRetryMaxWait ELSE arg[1]
SendRetryMultiplierX2(arg) == IF arg = None THEN DefaultRetryMultiplierX2 ELSE arg[1]

RECURSIVE Pow2(_)
Pow2(n) == IF n = 0 THEN 1 ELSE 2 * Pow2(n - 1)

\* BigQuery.insert_all: what it raises for the response status of the POST
insert_all_raises(status_code) ==
    IF status_code # HttpOK
    THEN Some([type |-> "BigQueryError", status_code |-> status_code])
    ELSE None

\* what one await bq.insert_all(...) under trio.fail_after(api_timeout) can raise
AttemptFailures ==
    {[type |-> "TooSlowError", status_code |-> 0],
     [type |-> "BrokenStreamError", status_code |-> 0],
     [type |-> "TokenFetchError", status_code |-> 503],
     [type |-> "ValueError", status_code |-> 0],
     [type |-> "Cancelled", status_code |-> 0]}
    \cup {insert_all_raises(st)[1] : st \in {400, 503}}

\* tenacity.retry_if_exception_type((trio.TooSlowError, trio.BrokenStreamError,
\*                                   TokenFetchError, BigQueryError))
retry_if_exception_type(exc) ==
    exc.type \in {"TooSlowError", "BrokenStreamError", "TokenFetchError", "BigQueryError"}

\* (faulty variant: stops one attempt late)
stop_one_attempt_late(n, max_attempts) == n > max_attempts
\* tenacity.stop_after_attempt(retry_max_attempts)
stop_after_attempt(n, max_attempts) == n >= max_attempts

\* tenacity.wait_exponential(multiplier=retry_multiplier, max=retry_max_wait):
\* max(0, min(multiplier * 2 ** n, max)) after the n-th attempt
wait_exponential(n, multiplier_x2, max_wait) ==
    LET result == multiplier_x2 * Pow2(n - 1)
    IN  IF Min(result, max_wait) < 0 THEN 0 ELSE Min(result, max_wait)

\* log_retries: the level of the record logged before a retry sleep
RetryLogLevel(next_attempt) == Min(LoggingWARNING, 10 * next_attempt)

\* (faulty variant: the insertIds drawn again for every attempt)
RowsWithFreshIds(rows, n) ==
    [i \in 1..Len(rows) |-> [rows[i] EXCEPT !.insertId = uuid4(@ + (n - 1) * Len(rows))]]
\* the rows actually_send_batch hands to bq.insert_all on an attempt
AttemptRows(rows, n) == rows

ThisCall == [rows |-> AttemptRows(send_rows, attempt_number), suffix |-> template_suffix]

\* send_batch's except clauses catch trio.TooSlowError and Exception; trio.Cancelled
\* is a BaseException and passes through them
CaughtBySendBatch(exc) == exc.type # "Cancelled"

\* send_batch's except clauses: logger.error / logger.exception with len(batch)
DropLog == [level |-> LoggingERROR, items |-> Len(send_rows)]

\* one attempt: actually_send_batch calls bq.insert_all and it returns
AttemptSucceeds ==
    /\ sendState = "attempting"
    /\ calls' = calls + 1
    /\ firstCall' = IF calls = 0 THEN Some(ThisCall) ELSE firstCall
    /\ lastCall' = Some(ThisCall)
    /\ lastFailure' = None
    /\ onlyTransient' = FALSE
    /\ sendState' = "done"
    /\ UNCHANGED <<retry_max_attempts, retry_max_wait, retry_multiplier_x2, template_suffix,
                   send_rows, attempt_number, sleeps, logs, escaped>>

\* one attempt raises exc: tenacity re-raises it into send_batch, which logs and
\* drops the batch, or it logs the retry and sleeps
AttemptFails(exc) ==
    /\ sendState = "attempting"
    /\ calls' = calls + 1
    /\ firstCall' = IF calls = 0 THEN Some(ThisCall) ELSE firstCall
    /\ lastCall' = Some(ThisCall)
    /\ lastFailure' = Some(exc)
    /\ onlyTransient' = (onlyTransient /\ exc = insert_all_raises(503)[1])
    /\ IF ~retry_if_exception_type(exc) \/ stop_after_attempt(attempt_number, retry_max_attempts)
       THEN /\ sendState' = "done"
            /\ logs' = IF CaughtBySendBatch(exc) THEN Append(logs, DropLog) ELSE logs
            /\ escaped' = ~CaughtBySendBatch(exc)
            /\ UNCHANGED <<attempt_number, sleeps>>
       ELSE /\ sendState' = "sleeping"
            /\ sleeps' = Append(sleeps, wait_exponential(attempt_number, retry_multiplier_x2,
                                                         retry_max_wait))
            /\ attempt_number' = attempt_number + 1
            /\ logs' = Append(logs, [level |-> RetryLogLevel(attempt_number + 1),
                                     items |-> 0])
            /\ UNCHANGED escaped
    /\ UNCHANGED <<retry_max_attempts, retry_max_wait, retry_multiplier_x2, template_suffix,
                   send_rows>>

\* the retry's trio.sleep returns and the next attempt starts
Wake ==
    /\ sendState = "sleeping"
    /\ sendState' = "attempting"
    /\ UNCHANGED <<retry_max_attempts, retry_max_wait, retry_multiplier_x2, template_suffix,
                   send_rows, attempt_number, calls, firstCall, lastCall, lastFailure,
                   onlyTransient, sleeps, logs, escaped>>

\* the compose windows a send task is drawn from
SendWindows ==
    {[i \in 1..Len(stamps) |-> [id |-> i, timestamp |-> stamps[i]]] :
        stamps \in SeqsUpTo(Timestamps, MaxSendWindow) \ {<<>>}}

\* nursery.start_soon(send_batch, bq, table, template_suffix, batch, retry_...=...)
SendInit ==
    /\ \E window \in SendWindows :
          \E task \in Range(compute_batches(window, 0)) :
              /\ template_suffix = task.template_suffix
              /\ send_rows = task.batch
    /\ retry_max_attempts \in
           {SendRetryMaxAttempts(a) : a \in {None} \cup {Some(n) : n \in 1..MaxAttemptsArg}}
    /\ retry_max_wait \in
           {SendRetryMaxWait(a) : a \in {None} \cup {Some(n) : n \in 1..MaxWaitArg}}
    /\ retry_multiplier_x2 \in
           {SendRetryMultiplierX2(a) : a \in {None} \cup {Some(n) : n \in 1..MaxMultiplierArg}}
    /\ sendState = "attempting"
    /\ attempt_number = 1
    /\ calls = 0
    /\ firstCall = None
    /\ lastCall = None
    /\ lastFailure = None
    /\ onlyTransient = TRUE
    /\ sleeps = <<>>
    /\ logs = <<>>
    /\ escaped = FALSE

(***************************************************************************)
(* Text.  A str (or bytes) value is a sequence of symbols.  A symbol is a   *)
(* single character, or a run of characters that every pattern and every    *)
(* split applied to the text treats as a whole ("bandersnatch", "2.2.1",    *)
(* the literal "(null)"); a separator that a pattern applied to the text    *)
(* looks for ("/", " ", "|", "@", "[", "]", "<", ">", ":") is a symbol of   *)
(* its own.                                                                 *)
(***************************************************************************)
StartsWith(s, p) == Len(s) >= Len(p) /\ SubSeq(s, 1, Len(p)) = p

EndsWith(s, p) == Len(s) >= Len(p) /\ SubSeq(s, Len(s) - Len(p) + 1, Len(s)) = p

\* s[i:] of Python, i counted from 0
From(s, i) == SubSeq(s, i + 1, Len(s))

\* str.isspace of one symbol; \s of a pattern
IsSpace(c) == c \in {" ", "\t"}

\* the length of the longest prefix of s made of symbols in (or not in) a class
RECURSIVE SpanSpace(_)
SpanSpace(s) == IF s # <<>> /\ IsSpace(s[1]) THEN 1 + SpanSpace(Tail(s)) ELSE 0

\* \S+ of a pattern, taken greedily: the length of the leading run of non-space symbols
RECURSIVE SpanNonSpace(_)
SpanNonSpace(s) == IF s # <<>> /\ ~IsSpace(s[1]) THEN 1 + SpanNonSpace(Tail(s)) ELSE 0

\* str.split(): the maximal runs of non-space symbols
RECURSIVE split(_)
split(s) ==
    LET t == From(s, SpanSpace(s))
        n == SpanNonSpace(t)
    IN  IF t = <<>> THEN <<>> ELSE <<SubSeq(t, 1, n)>> \o split(From(t, n))

\* str.split(maxsplit=n): at most n splits, the rest kept as it is after its
\* leading white space
RECURSIVE split_maxsplit(_, _)
split_maxsplit(s, maxsplit) ==
    LET t == From(s, SpanSpace(s))
        n == SpanNonSpace(t)
    IN  IF t = <<>> THEN <<>>
        ELSE IF maxsplit = 0 THEN <<t>>
        ELSE <<SubSeq(t, 1, n)>> \o split_maxsplit(From(t, n), maxsplit - 1)

\* the first position of symbol c in s, 0 when there is none
RECURSIVE Find(_, _)
Find(s, c) ==
    IF s = <<>> THEN 0
    ELSE IF s[1] = c THEN 1
    ELSE LET r == Find(Tail(s), c) IN IF r = 0 THEN 0 ELSE r + 1

\* the last position of symbol c in s, 0 when there is none
RECURSIVE RFind(_, _)
RFind(s, c) ==
    IF s = <<>> THEN 0
    ELSE IF s[Len(s)] = c THEN Len(s)
    ELSE RFind(SubSeq(s, 1, Len(s) - 1), c)

\* str.split(sep, 1) for a one-symbol separator
split_once(s, sep) ==
    LET i == Find(s, sep)
    IN  IF i = 0 THEN <<s>> ELSE <<SubSeq(s, 1, i - 1), From(s, i)>>

(***************************************************************************)
(* The user agent classifier (linehaul/ua).  A parser's answer is NoData    *)
(* (Python's None), Data(d) with d the dictionary it built, or Raises(exc). *)
(* A dictionary is a function from its keys; a value of an Optional type is *)
(* None or Some(x).                                                         *)
(***************************************************************************)
NoData == [tag |-> "none"]
Data(d) == [tag |-> "data", data |-> d]
Raises(exc) == [tag |-> "raise", exc |-> exc]

EmptyDict == [k \in {} |-> k]

\* dict.get(key) into an Optional, the value converted by f
OptionalKey(d, key, f(_)) == IF key \in DOMAIN d THEN Some(f(d[key])) ELSE None

Verbatim(x) == x

\* cattr.structure(d, Installer), and the same for Implementation and System
Installer(d) ==
    [name |-> OptionalKey(d, "name", Verbatim), version |-> OptionalKey(d, "version", Verbatim)]

Implementation(d) ==
    [name |-> OptionalKey(d, "name", Verbatim), version |-> OptionalKey(d, "version", Verbatim)]

Distro(d) ==
    [name |-> OptionalKey(d, "name", Verbatim), version |-> OptionalKey(d, "version", Verbatim)]

System(d) ==
    [name |-> OptionalKey(d, "name", Verbatim), release |-> OptionalKey(d, "release", Verbatim)]

\* cattr.structure(d, UserAgent): every attribute defaults to None
UserAgent(d) ==
    [installer      |-> OptionalKey(d, "installer", Installer),
     python         |-> OptionalKey(d, "python", Verbatim),
     implementation |-> OptionalKey(d, "implementation", Implementation),
     distro         |-> OptionalKey(d, "distro", Distro),
     system         |-> OptionalKey(d, "system", System),
     cpu            |-> OptionalKey(d, "cpu", Verbatim),
     openssl_version    |-> OptionalKey(d, "openssl_version", Verbatim),
     setuptools_version |-> OptionalKey(d, "setuptools_version", Verbatim),
     ci             |-> OptionalKey(d, "ci", Verbatim)]

\* packaging.version.parse(version_str).release for the version texts of the model;
\* <<>> for a text that is no PEP 440 version (it is in no specifier set)
Release(version_str) ==
    IF Len(version_str) # 1 THEN <<>>
    ELSE CASE version_str[1] = "18.0" -> <<18, 0>>
           [] version_str[1] = "6.0" -> <<6, 0>>
           [] version_str[1] = "5.1" -> <<5, 1>>
           [] version_str[1] = "1.5.6" -> <<1, 5, 6>>
           [] version_str[1] = "1.4" -> <<1, 4>>
           [] version_str[1] = "1.0" -> <<1, 0>>
           [] version_str[1] = "2.2.1" -> <<2, 2, 1>>
           [] OTHER -> <<>>

\* version in SpecifierSet(">=6", prereleases=True)
InSpecifierSet_ge_6(version_str) ==
    LET r == Release(version_str) IN r # <<>> /\ r[1] >= 6

\* version in SpecifierSet(">=1.4,<6", prereleases=True)
InSpecifierSet_ge_1_4_lt_6(version_str) ==
    LET r == Release(version_str)
    IN  r # <<>> /\ r[1] < 6 /\ (r[1] > 1 \/ (r[1] = 1 /\ r[2] >= 4))

\* str.lower() of one symbol
lower(c) ==
    CASE c = "CPython" -> "cpython"
      [] c = "Mozilla" -> "mozilla"
      [] c = "Wget" -> "wget"
      [] c = "FDM" -> "fdm"
      [] c = "Firefox" -> "firefox"
      [] OTHER -> c

\* the symbols that read as \d\.\d
DigitDotDigit == {"2.7", "3.5"}

\* user_agent.split()[0].split("/", 1)[1] of a text that starts with "pip/"
PipVersionStr(user_agent) == split_once(split(user_agent)[1], "/")[2]

\* Parser.pip_1_4_format
pip_1_4_format(user_agent) ==
    IF ~StartsWith(user_agent, <<"pip", "/">>) THEN NoData
    ELSE IF ~InSpecifierSet_ge_1_4_lt_6(PipVersionStr(user_agent)) THEN NoData
    ELSE LET words == split_maxsplit(user_agent, 2)
         IN  IF Len(words) # 3 THEN Raises("ValueError")
             ELSE LET impl == words[2]
                      system == words[3]
                      impl_parts == split_once(impl, "/")
                      system_parts == split_once(system, "/")
                      impl_version == ~EndsWith(impl, <<"/", "Unknown">>)
                      system_name == ~StartsWith(system, <<"Unknown", "/">>)
                      system_release == ~EndsWith(system, <<"/", "Unknown">>)
                      implementation ==
                          [name |-> impl_parts[1]]
                          @@ (IF impl_version THEN [version |-> impl_parts[2]] ELSE EmptyDict)
                      the_system ==
                          (IF system_name THEN [name |-> system_parts[1]] ELSE EmptyDict)
                          @@ (IF system_release THEN [release |-> system_parts[2]]
                              ELSE EmptyDict)
                      is_cpython ==
                          /\ [i \in 1..Len(implementation.name) |->
                                 lower(implementation.name[i])] = <<"cpython">>
                          /\ impl_version
                          /\ implementation.version # <<>>
                  IN  IF \/ impl_version /\ Len(impl_parts) < 2
                         \/ system_release /\ Len(system_parts) < 2
                      THEN Raises("IndexError")
                      ELSE Data([installer |-> [name |-> <<"pip">>,
                                                version |-> PipVersionStr(user_agent)],
                                 implementation |-> implementation]
                                @@ (IF system_name \/ system_release
                                    THEN [system |-> the_system] ELSE EmptyDict)
                                @@ (IF is_cpython THEN [python |-> implementation.version]
                                    ELSE EmptyDict))

\* "NAME/" followed by \S+ up to the end of the text: the \S+
NameSlashRest(user_agent, name) ==
    IF /\ StartsWith(user_agent, <<name, "/">>)
       /\ Len(user_agent) > 2
       /\ SpanNonSpace(From(user_agent, 2)) = Len(user_agent) - 2
    THEN Some(From(user_agent, 2)) ELSE None

\* ^Python-urllib/(?P<python>\d\.\d) NAME/(?P<version>\S+)$
UrllibThenName(user_agent, name) ==
    IF /\ Len(user_agent) >= 7
       /\ SubSeq(user_agent, 1, 2) = <<"Python-urllib", "/">>
       /\ user_agent[3] \in DigitDotDigit
       /\ user_agent[4] = " "
       /\ NameSlashRest(From(user_agent, 4), name) # None
    THEN Some([python |-> <<user_agent[3]>>, version |-> From(user_agent, 6)])
    ELSE None

\* Parser._distribute_re
distribute_re(user_agent) == UrllibThenName(user_agent, "distribute")

\* Parser.distribute_format
distribute_format(user_agent) ==
    LET m == distribute_re(user_agent)
    IN  IF m = None THEN NoData
        ELSE Data([installer |-> [name |-> <<"distribute">>, version |-> m[1].version],
                   python |-> m[1].python])

\* Parser._setuptools_re
setuptools_re(user_agent) == UrllibThenName(user_agent, "setuptools")

\* Parser._setuptools_new_re: ^setuptools/(?P<version>\S+) Python-urllib/(?P<python>\d\.\d)$
setuptools_new_re(user_agent) ==
    LET n == SpanNonSpace(From(user_agent, 2))
    IN  IF /\ StartsWith(user_agent, <<"setuptools", "/">>)
           /\ n >= 1
           /\ From(user_agent, 2 + n) \in
                  {<<" ", "Python-urllib", "/", d>> : d \in DigitDotDigit}
        THEN Some([python |-> <<user_agent[Len(user_agent)]>>,
                   version |-> SubSeq(user_agent, 3, 2 + n)])
        ELSE None

\* Parser.setuptools_format
setuptools_format(user_agent) ==
    LET m == IF setuptools_re(user_agent) # None THEN setuptools_re(user_agent)
             ELSE setuptools_new_re(user_agent)
    IN  IF m = None THEN NoData
        ELSE Data([installer |-> [name |-> <<"setuptools">>, version |-> m[1].version],
                   python |-> m[1].python])

\* re.search of a pattern that is not anchored at the start: the leftmost position from
\* which it matches
FirstMatch(user_agent, matcher(_)) ==
    LET hits == {at \in 0..(Len(user_agent) - 1) : matcher(From(user_agent, at)) # None}
    IN  IF hits = {} THEN None
        ELSE matcher(From(user_agent, CHOOSE a \in hits : \A b \in hits : a <= b))

PexAtStart(s) == NameSlashRest(s, "pex")

\* Parser._pex_re: pex/(?P<version>\S+)$, not anchored at the start
pex_re(user_agent) == FirstMatch(user_agent, PexAtStart)

\* Parser.pex_format
pex_format(user_agent) ==
    LET m == pex_re(user_agent)
    IN  IF m = None THEN NoData
        ELSE Data([installer |-> [name |-> <<"pex">>, version |-> m[1]]])

\* ^NAME/(?P<version>\S+)(?: .+)?$
NameSlashVersionThenAnything(user_agent, name) ==
    LET n == SpanNonSpace(From(user_agent, 2))
        after == From(user_agent, 2 + n)
    IN  IF /\ StartsWith(user_agent, <<name, "/">>)
           /\ n >= 1
           /\ \/ after = <<>>
              \/ Len(after) >= 2 /\ after[1] = " "
        THEN Some(SubSeq(user_agent, 3, 2 + n)) ELSE None

\* Parser._conda_re
conda_re(user_agent) == NameSlashVersionThenAnything(user_agent, "conda")

\* Parser.conda_format
conda_format(user_agent) ==
    LET m == conda_re(user_agent)
    IN  IF m = None THEN NoData
        ELSE Data([installer |-> [name |-> <<"conda">>, version |-> m[1]]])

\* Parser._bazel_re: ^Bazel/(?P<version>.+)$
bazel_re(user_agent) ==
    IF StartsWith(user_agent, <<"Bazel", "/">>) /\ Len(user_agent) > 2
    THEN Some(From(user_agent, 2)) ELSE None

\* Parser.bazel_format
bazel_format(user_agent) ==
    LET m == bazel_re(user_agent)
    IN  IF m = None THEN NoData
        ELSE Data([installer |->
                      [name |-> <<"Bazel">>,
                       version |-> IF StartsWith(m[1], <<"release", " ">>)
                                   THEN From(m[1], 2) ELSE m[1]]])

\* NAME/(?P<version>\S+) \(.+\)$ matched at the start of s
NameSlashVersionParens(s, name) ==
    LET n == SpanNonSpace(From(s, 2))
        after == From(s, 2 + n)
    IN  IF /\ StartsWith(s, <<name, "/">>)
           /\ n >= 1
           /\ Len(after) >= 4
           /\ after[1] = " "
           /\ after[2] = "("
           /\ after[Len(after)] = ")"
        THEN Some(SubSeq(s, 3, 2 + n)) ELSE None

\* Parser._bandersnatch_re: ^bandersnatch/(?P<version>\S+) \(.+\)$
bandersnatch_re(user_agent) == NameSlashVersionParens(user_agent, "bandersnatch")

\* Parser.bandersnatch_format
bandersnatch_format(user_agent) ==
    LET m == bandersnatch_re(user_agent)
    IN  IF m = None THEN NoData
        ELSE Data([installer |-> [name |-> <<"bandersnatch">>, version |-> m[1]]])

DevpiAtStart(s) == NameSlashVersionParens(s, "devpi-server")

\* Parser._devpi_re: devpi-server/(?P<version>\S+) \(.+\)$, not anchored at the start
devpi_re(user_agent) == FirstMatch(user_agent, DevpiAtStart)

\* Parser.devpi_format
devpi_format(user_agent) ==
    LET m == devpi_re(user_agent)
    IN  IF m = None THEN NoData
        ELSE Data([installer |-> [name |-> <<"devpi">>, version |-> m[1]]])

\* Parser._z3c_pypimirror_re: ^z3c\.pypimirror/(?P<version>\S+)$
z3c_pypimirror_re(user_agent) == NameSlashRest(user_agent, "z3c.pypimirror")

\* Parser.z3c_pypimirror_format
z3c_pypimirror_format(user_agent) ==
    LET m == z3c_pypimirror_re(user_agent)
    IN  IF m = None THEN NoData
        ELSE Data([installer |-> [name |-> <<"z3c.pypimirror">>, version |-> m[1]]])

\* Parser._artifactory_re: ^Artifactory/(?P<version>\S+)$
artifactory_re(user_agent) == NameSlashRest(user_agent, "Artifactory")

\* Parser.artifactory_format
artifactory_format(user_agent) ==
    LET m == artifactory_re(user_agent)
    IN  IF m = None THEN NoData
        ELSE Data([installer |-> [name |-> <<"Artifactory">>, version |-> m[1]]])

\* Parser._nexus_re: ^Nexus/(?P<version>\S+), whatever follows
nexus_re(user_agent) ==
    LET n == SpanNonSpace(From(user_agent, 2))
    IN  IF StartsWith(user_agent, <<"Nexus", "/">>) /\ n >= 1
        THEN Some(SubSeq(user_agent, 3, 2 + n)) ELSE None

\* Parser.nexus_format
nexus_format(user_agent) ==
    LET m == nexus_re(user_agent)
    IN  IF m = None THEN NoData
        ELSE Data([installer |-> [name |-> <<"Nexus">>, version |-> m[1]]])

\* Parser._pep381client_re: ^pep381client(?:-proxy)?/(?P<version>\S+)$
pep381client_re(user_agent) ==
    IF NameSlashRest(user_agent, "pep381client") # None
    THEN NameSlashRest(user_agent, "pep381client")
    ELSE IF user_agent # <<>> /\ user_agent[1] = "pep381client"
    THEN NameSlashRest(Tail(user_agent), "-proxy")
    ELSE None

\* Parser.pep381client_format
pep381client_format(user_agent) ==
    LET m == pep381client_re(user_agent)
    IN  IF m = None THEN NoData
        ELSE Data([installer |-> [name |-> <<"pep381client">>, version |-> m[1]]])

\* Parser.urllib2_format
urllib2_format(user_agent) ==
    IF ~StartsWith(user_agent, <<"Python-urllib", "/">>) THEN NoData
    ELSE IF Len(split(user_agent)) > 1 THEN NoData
    ELSE Data([python |-> split_once(user_agent, "/")[2]])

\* Parser._requests_re: ^python-requests/(?P<version>\S+)(?: .+)?$
requests_re(user_agent) == NameSlashVersionThenAnything(user_agent, "python-requests")

\* Parser.requests_format
requests_format(user_agent) ==
    LET m == requests_re(user_agent)
    IN  IF m = None THEN NoData
        ELSE Data([installer |-> [name |-> <<"requests">>, version |-> m[1]]])

\* the text "(Macintosh; Intel Mac OS X " of the Homebrew pattern, one symbol each side
\* of the version
MacintoshIntel == <<"(", "Macintosh; Intel Mac OS X ">>

\* Parser._homebrew_re:
\* ^Homebrew/(?P<version>\S+)\s+\(Macintosh;\ Intel\ Mac\ OS\ X\ (?P<osx_version>[^)]+)\)
homebrew_re(user_agent) ==
    LET n == SpanNonSpace(From(user_agent, 2))
        after == From(user_agent, 2 + n)
        sp == SpanSpace(after)
        paren == From(after, sp)
        close == Find(From(paren, 2), ")")
    IN  IF /\ StartsWith(user_agent, <<"Homebrew", "/">>)
           /\ n >= 1
           /\ sp >= 1
           /\ StartsWith(paren, MacintoshIntel)
           /\ close >= 2
        THEN Some([version |-> SubSeq(user_agent, 3, 2 + n),
                   osx_version |-> SubSeq(paren, 3, close + 1)])
        ELSE None

\* Parser.homebrew_format
homebrew_format(user_agent) ==
    LET m == homebrew_re(user_agent)
    IN  IF m = None THEN NoData
        ELSE Data([installer |-> [name |-> <<"Homebrew">>, version |-> m[1].version],
                   distro |-> [name |-> <<"OS X">>, version |-> m[1].osx_version]])

\* Parser._os_re
os_re(user_agent) ==
    \/ /\ StartsWith(user_agent, <<"fetch", " ">>)
       /\ NameSlashRest(From(user_agent, 2), "libfetch") # None
    \/ NameSlashRest(user_agent, "libfetch") # None
    \/ user_agent = <<"OpenBSD", " ", "ftp">>
    \/ StartsWith(user_agent, <<"Homebrew", " ">>)
    \/ StartsWith(user_agent, <<"MacPorts">>)
    \/ StartsWith(user_agent, <<"NetBSD-ftp", "/">>)
    \/ StartsWith(user_agent, <<"slapt-get">>)
    \/ StartsWith(user_agent, <<"pypi-install", "/">>)
    \/ user_agent = <<"slackrepo">>
    \/ StartsWith(user_agent, <<"PTXdist">>)
    \/ StartsWith(user_agent, <<"GARstow", "/">>)
    \/ StartsWith(user_agent, <<"xbps", "/">>)

\* Parser.os_format
os_format(user_agent) ==
    IF ~os_re(user_agent) THEN NoData
    ELSE Data([installer |-> [name |-> <<"OS">>]])

\* the names of Parser._browser_re that stand alone, lower-cased (re.IGNORECASE)
BrowserNames ==
    {"mozilla", "safari", "wget", "curl", "opera", "aria2", "androiddownloadmanager",
     "ucweb", "links", "okhttp", "apache-httpclient"}

\* (?:/|$) at the start of s
SlashOrEnd(s) == s = <<>> \/ s[1] = "/"

\* Parser._browser_re
browser_re(user_agent) ==
    /\ user_agent # <<>>
    /\ \/ lower(user_agent[1]) \in BrowserNames /\ SlashOrEnd(Tail(user_agent))
       \/ /\ Len(user_agent) >= 2
          /\ <<lower(user_agent[1]), user_agent[2]>> \in
                 {<<"com.apple.webkit.networking", "/">>, <<"firefox", "/">>}
          /\ SlashOrEnd(From(user_agent, 2))
       \/ /\ Len(user_agent) >= 3
          /\ <<lower(user_agent[1]), user_agent[2], lower(user_agent[3])>> =
                 <<"url", "/", "emacs">>
          /\ SlashOrEnd(From(user_agent, 3))
       \/ /\ Len(user_agent) >= 3
          /\ lower(user_agent[1]) = "fdm"
          /\ user_agent[2] = " "
          /\ \E k \in 1..SpanNonSpace(From(user_agent, 2)) :
                SlashOrEnd(From(user_agent, 2 + k))

\* (faulty variant: no format for browsers)
browser_format_declines(user_agent) == NoData
\* Parser.browser_format
browser_format(user_agent) ==
    IF ~browser_re(user_agent) THEN NoData
    ELSE Data([installer |-> [name |-> <<"Browser">>]])

\* Parser._ignore_re
ignore_re(user_agent) ==
    \/ StartsWith(user_agent, <<"Datadog", " ", "Agent", "/">>)
    \/ user_agent = <<"(null)">>
    \/ StartsWith(user_agent, <<"WordPress", "/">>)
    \/ StartsWith(user_agent, <<"Chef", " ", "Client", "/">>)
    \/ StartsWith(user_agent, <<"Chef", " ", "Knife", "/">>)
    \/ user_agent = <<"Ruby">>
    \/ StartsWith(user_agent, <<"Slackbot-LinkExpanding">>)
    \/ StartsWith(user_agent, <<"TextualInlineMedia", "/">>)
    \/ StartsWith(user_agent, <<"WeeChat", "/">>)
    \/ user_agent = <<"Download", " ", "Master">>
    \/ StartsWith(user_agent, <<"Java", "/">>)
    \/ user_agent \in {<<"Go", " ", d, " ", "package", " ", "http">> : d \in DigitDotDigit}
    \/ StartsWith(user_agent, <<"Go-http-client", "/">>)
    \/ user_agent = <<"GNU", " ", "Guile">>
    \/ user_agent = <<"github-olee">>
    \/ user_agent = <<"YisouSpider">>
    \/ StartsWith(user_agent, <<"Apache", " ", "Ant", "/">>)
    \/ StartsWith(user_agent, <<"Salt", "/">>)
    \/ user_agent = <<"ansible-httpget">>
    \/ StartsWith(user_agent, <<"ltx71", " ", "-", " ", "(", "http://ltx71.com/", ")">>)
    \/ StartsWith(user_agent, <<"Scrapy", "/">>)
    \/ StartsWith(user_agent, <<"spectool", "/">>)
    \/ "Nutch" \in Range(user_agent)
    \/ StartsWith(user_agent, <<"AWSBrewLinkChecker", "/">>)
    \/ StartsWith(user_agent, <<"Y!J-ASR", "/">>)
    \/ user_agent = <<"NSIS_Inetc", " ", "(", "Mozilla", ")">>
    \/ StartsWith(user_agent, <<"Debian", " ", "uscan">>)
    \/ user_agent \in {<<"Pingdom.com_bot_version_", d, "_", "(", u, ")">> :
                          d \in DigitDotDigit,
                          u \in {"http://www.pingdom.com/", "https://www.pingdom.com/"}}
    \/ user_agent = <<"MauiBot", " ", "(", "crawler.feedback+dc@gmail.com", ")">>

\* (faulty variant: nothing is ignored)
ignored_nothing(user_agent) == FALSE
\* Parser.ignored
ignored(user_agent) == ignore_re(user_agent)

\* what a call of the classifier comes to: a value returned or an exception raised, and
\* the log records it emitted
Returned(value, emitted) == [tag |-> "return", value |-> value, logs |-> emitted]
Raised(exc, emitted) == [tag |-> "raise", exc |-> exc, logs |-> emitted]

LogRecord(name, level, msg, args) ==
    [name |-> name, level |-> level, msg |-> msg, args |-> args]

\* the list formats of Parser.parse, each format applied to the text
Formats(user_agent) ==
    <<[name |-> "pip_1_4_format", result |-> pip_1_4_format(user_agent)],
      [name |-> "setuptools_format", result |-> setuptools_format(user_agent)],
      [name |-> "distribute_format", result |-> distribute_format(user_agent)],
      [name |-> "pex_format", result |-> pex_format(user_agent)],
      [name |-> "conda_format", result |-> conda_format(user_agent)],
      [name |-> "bazel_format", result |-> bazel_format(user_agent)],
      [name |-> "bandersnatch_format", result |-> bandersnatch_format(user_agent)],
      [name |-> "z3c_pypimirror_format", result |-> z3c_pypimirror_format(user_agent)],
      [name |-> "devpi_format", result |-> devpi_format(user_agent)],
      [name |-> "artifactory_format", result |-> artifactory_format(user_agent)],
      [name |-> "nexus_format", result |-> nexus_format(user_agent)],
      [name |-> "pep381client_format", result |-> pep381client_format(user_agent)],
      [name |-> "urllib2_format", result |-> urllib2_format(user_agent)],
      [name |-> "requests_format", result |-> requests_format(user_agent)],
      [name |-> "homebrew_format", result |-> homebrew_format(user_agent)],
      [name |-> "os_format", result |-> os_format(user_agent)],
      [name |-> "browser_format", result |-> browser_format(user_agent)]>>

\* the for loop of Parser.parse over formats[i..]: the first format to return data
\* ends it; one that raises leaves a warning and counts as having returned None
RECURSIVE TryFormats(_, _, _)
TryFormats(formats, user_agent, emitted) ==
    IF formats = <<>>
    THEN IF ignored(user_agent) THEN Returned(None, emitted)
         ELSE Raised("UnknownUserAgentError", emitted)
    ELSE LET format == Head(formats)
         IN  IF format.result.tag = "data"
             THEN Returned(Some(UserAgent(format.result.data)), emitted)
             ELSE TryFormats(Tail(formats), user_agent,
                             IF format.result.tag = "raise"
                             THEN Append(emitted,
                                         LogRecord("linehaul.ua.parser", LoggingWARNING,
                                                   "Error parsing %r as %s",
                                                   <<user_agent, format.name>>))
                             ELSE emitted)

\* Parser.parse
Parser_parse(user_agent) == TryFormats(Formats(user_agent), user_agent, <<>>)

\* two JSON documents, each one symbol, as pip >= 6 sends them after "pip/VERSION "
PipJson18 == "{\"installer\":{\"name\":\"pip\",\"version\":\"18.0\"}}"
PipJson6 == "{\"installer\":{\"name\":\"pip\",\"version\":\"6.0\"},\"python\":\"3.5\"}"

\* json.loads(text)
json_loads(text) ==
    IF text = <<PipJson18>>
    THEN Data([installer |-> [name |-> <<"pip">>, version |-> <<"18.0">>]])
    ELSE IF text = <<PipJson6>>
    THEN Data([installer |-> [name |-> <<"pip">>, version |-> <<"6.0">>],
               python |-> <<"3.5">>])
    ELSE Raises("JSONDecodeError")

\* Pip6UserAgent, the callback wrapped by @ua_parser
Pip6UserAgent(user_agent) ==
    IF ~StartsWith(user_agent, <<"pip", "/">>) THEN Raises("UnableToParse")
    ELSE IF ~InSpecifierSet_ge_6(PipVersionStr(user_agent)) THEN Raises("UnableToParse")
    ELSE LET words == split_maxsplit(user_agent, 1)
         IN  IF Len(words) < 2 THEN Raises("IndexError")
             ELSE IF json_loads(words[2]).tag = "raise" THEN NoData
             ELSE json_loads(words[2])

\* Pip6UserAgent.test(user_agent): the matching contract of the Pip>=6 parser (the text
\* begins "pip/" and its version is at least 6)
Pip6UserAgent_test(user_agent) ==
    /\ StartsWith(user_agent, <<"pip", "/">>)
    /\ InSpecifierSet_ge_6(PipVersionStr(user_agent))

\* USER_AGENT_PARSERS, the default of parse's _parsers
USER_AGENT_PARSERS == <<"Pip6UserAgent">>

\* the for loop of parse over _parsers: Some(outcome) when a parser ended the call,
\* None when the loop ran out
RECURSIVE NewStyleParsers(_, _)
NewStyleParsers(user_agent, parsers) ==
    IF parsers = <<>> THEN None
    ELSE IF ~Pip6UserAgent_test(user_agent) THEN NewStyleParsers(user_agent, Tail(parsers))
    ELSE LET r == Pip6UserAgent(user_agent)
         IN  IF r.tag = "raise" /\ r.exc = "UnableToParse"
             THEN NewStyleParsers(user_agent, Tail(parsers))
             ELSE IF r.tag = "raise" THEN Some(Raised(r.exc, <<>>))
             \* cattr.structure(None, UserAgent) subscripts None
             ELSE IF r.tag = "none" THEN Some(Raised("TypeError", <<>>))
             ELSE Some(Returned(Some(UserAgent(r.data)), <<>>))

\* linehaul.ua.parser.parse(user_agent, _parsers=parsers)
ua_parser_parse(user_agent, parsers) ==
    IF NewStyleParsers(user_agent, parsers) # None
    THEN NewStyleParsers(user_agent, parsers)[1]
    ELSE Parser_parse(user_agent)

\* the user agent texts the classifier is run on
UserAgents ==
    {<<"pip", "/", "18.0", " ", PipJson18>>,
     <<"pip", "/", "6.0", " ", PipJson6>>,
     <<"pip", "/", "18.0", " ", "{not json">>,
     <<"pip", "/", "18.0">>,
     <<"pip", "/", "1.5.6", " ", "CPython", "/", "3.5", " ", "Darwin", "/", "15.2.0">>,
     <<"pip", "/", "1.4", " ", "Unknown", "/", "Unknown", " ", "Unknown", "/", "Unknown">>,
     <<"pip", "/", "5.1">>,
     <<"pip", "/", "1.0", " ", "there-never-was-a-pip-1.0-user-agent">>,
     <<"Python-urllib", "/", "3.5", " ", "distribute", "/", "0.6">>,
     <<"Python-urllib", "/", "2.7", " ", "setuptools", "/", "18.0">>,
     <<"setuptools", "/", "18.0", " ", "Python-urllib", "/", "3.5">>,
     <<"Python-urllib", "/", "3.5">>,
     <<"Python-urllib", "/", "3.5", " ", "unknownthing", "/", "1.0">>,
     <<"pex", "/", "1.0">>,
     <<"Nutch", " ", "pex", "/", "1.0">>,
     <<"conda", "/", "4.3", " ", "requests", "/", "2.2.1">>,
     <<"Bazel", "/", "release", " ", "0.5">>,
     <<"bandersnatch", "/", "2.2.1", " ", "(", "cpython", " ", "3.7.0-final0,", " ",
       "Darwin", " ", "x86_64", ")">>,
     <<"devpi-server", "/", "4.0", " ", "(", "py3.5;", " ", "linux", ")">>,
     <<"z3c.pypimirror", "/", "1.0">>,
     <<"Artifactory", "/", "4.0">>,
     <<"Nexus", "/", "3.0", " ", "(", "OSS", ")">>,
     <<"pep381client", "-proxy", "/", "1.0">>,
     <<"python-requests", "/", "2.2.1">>,
     <<"Homebrew", "/", "1.0", " ", "(", "Macintosh; Intel Mac OS X ", "10.11", ")">>,
     <<"Homebrew", " ", "1.0">>,
     <<"libfetch", "/", "2.0">>,
     <<"Mozilla", "/", "5.0", " ", "(", "compatible;", " ", "MSIE", " ", "9.0", ")">>,
     <<"Mozilla", "/", "5.0", " ", "(", "compatible;", " ", "Nutch", ")">>,
     <<"Wget", "/", "1.0">>,
     <<"curl">>,
     <<"FDM", " ", "3.x">>,
     <<"Debian", " ", "uscan", "/", "1.0">>,
     <<"(null)">>,
     <<"Ruby">>,
     <<"Go", " ", "3.5", " ", "package", " ", "http">>,
     <<"Java", "/", "1.8">>,
     <<"totally-unheard-of", "/", "0.1">>,
     <<"something", " ", "that", " ", "is", " ", "not", " ", "known">>,
     <<>>}

VARIABLES
    uaParsers,  \* the _parsers argument of parse
    uaText,     \* the user_agent argument of parse
    uaPc,       \* "call": in the loop over _parsers; "legacy": in Parser.parse; "done"
    uaOutcome   \* what the call returned or raised, and what it logged

uaVars == <<uaParsers, uaText, uaPc, uaOutcome>>

NotYet == [tag |-> "pending", logs |-> <<>>]

\* parse: the loop over _parsers
UAParseNewStyle ==
    /\ uaPc = "call"
    /\ IF NewStyleParsers(uaText, uaParsers) # None
       THEN uaOutcome' = NewStyleParsers(uaText, uaParsers)[1] /\ uaPc' = "done"
       ELSE uaPc' = "legacy" /\ UNCHANGED uaOutcome
    /\ UNCHANGED <<uaParsers, uaText>>

\* parse: return Parser.parse(user_agent)
UAParseLegacy ==
    /\ uaPc = "legacy"
    /\ uaOutcome' = Parser_parse(uaText)
    /\ uaPc' = "done"
    /\ UNCHANGED <<uaParsers, uaText>>

UAInit ==
    /\ uaParsers \in {USER_AGENT_PARSERS, <<>>}
    /\ uaText \in UserAgents
    /\ uaPc = "call"
    /\ uaOutcome = NotYet

(***************************************************************************)
(* Characters and runs of them, as pyparsing classifies them.              *)
(***************************************************************************)
\* the length of the longest prefix of s whose symbols all satisfy ok
Span(s, ok(_)) ==
    LET bad == {i \in 1..Len(s) : ~ok(s[i])}
    IN  IF bad = {} THEN Len(s) ELSE (CHOOSE i \in bad : \A j \in bad : i <= j) - 1

\* s[i] counted from 1, "" past the end of s
At(s, i) == IF i \in 1..Len(s) THEN s[i] ELSE ""

\* U+FFFD, which bytes.decode(errors="replace") puts for bytes that are not UTF-8
ReplacementCharacter == "U+FFFD"

\* pyparsing's default white space
IsWhite(c) == c \in {" ", "\t", "\n", "\r"}

\* pyparsing.printables: the ASCII characters that are not white space
IsPrintable(c) == ~IsWhite(c) /\ c \notin {ReplacementCharacter, "ü"}

IsDigit(c) == c \in {"0", "1", "2", "3", "4", "5", "6", "7", "8", "9"}

DigitValue(c) ==
    CASE c = "0" -> 0 [] c = "1" -> 1 [] c = "2" -> 2 [] c = "3" -> 3 [] c = "4" -> 4
      [] c = "5" -> 5 [] c = "6" -> 6 [] c = "7" -> 7 [] c = "8" -> 8 [] c = "9" -> 9

\* int(text) of a run of digits
RECURSIVE int(_)
int(digits) ==
    IF digits = <<>> THEN 0
    ELSE 10 * int(SubSeq(digits, 1, Len(digits) - 1)) + DigitValue(digits[Len(digits)])

IsNotNewline(c) == c # "\n"

(***************************************************************************)
(* Grammars.  A grammar is the list of its elements, matched one after the  *)
(* other without backtracking, as pyparsing matches an And.  A named result *)
(* is Text(t), or NullValue where a parse action put a sentinel.            *)
(***************************************************************************)
Text(t) == [null |-> FALSE, text |-> t]

\* the singletons NullValue and NilValue, the parses of the literals "(null)" and "-"
NullValue == [null |-> TRUE, text |-> <<>>]

\* Word(chars): whether c is one of chars, chars named as the source builds it
IsWordChar(chars, c) ==
    CASE chars = "printables" -> IsPrintable(c)
      [] chars = "printables - '['" -> IsPrintable(c) /\ c # "["
      [] chars = "printables - ']'" -> IsPrintable(c) /\ c # "]"
      [] chars = "[0-9]" -> IsDigit(c)
      [] chars = "printables + ' ' + '\\t' - '|' - '@'" ->
            (IsPrintable(c) \/ c \in {" ", "\t"}) /\ c \notin {"|", "@"}

\* the literals of PACKAGE_TYPE, which are the values of the enum PackageType
PackageTypes ==
    {"sdist", "bdist_wheel", "bdist_dmg", "bdist_dumb", "bdist_egg", "bdist_msi",
     "bdist_rpm", "bdist_wininst"}

Element(kind, lit, name) == [kind |-> kind, lit |-> lit, name |-> name]

\* And.parseImpl: the elements matched in turn from the start of s; skip is whether
\* white space is skipped before each element (it is unless leaveWhitespace() was
\* called on the grammar).  Some(results) when all matched and only white space is
\* left (parseAll=True), None for ParseException.
RECURSIVE Match(_, _, _, _)
Match(elements, s, skip, results) ==
    LET t == IF skip THEN From(s, Span(s, IsWhite)) ELSE s
        e == Head(elements)
        rest == Tail(elements)
        word == Span(t, LAMBDA c : IsWordChar(e.lit, c))
        line == Span(t, IsNotNewline)
    IN  IF elements = <<>>
        THEN IF Span(s, IsWhite) = Len(s) THEN Some(results) ELSE None
        ELSE CASE e.kind = "L" ->
                    IF At(t, 1) # e.lit THEN None
                    ELSE Match(rest, Tail(t), skip,
                               IF e.name = "" THEN results
                               ELSE (e.name :> Text(<<e.lit>>)) @@ results)
               [] e.kind = "Word" ->
                    IF word = 0 THEN None
                    ELSE Match(rest, From(t, word), skip,
                               (e.name :> Text(SubSeq(t, 1, word))) @@ results)
               [] e.kind = "Word(min=1, max=3)" ->
                    IF word \notin 1..3 THEN None
                    ELSE Match(rest, From(t, word), skip,
                               (e.name :> Text(SubSeq(t, 1, word))) @@ results)
               [] e.kind = "NIL ^ Word" ->
                    IF word = 0 THEN None
                    ELSE Match(rest, From(t, word), skip,
                               (e.name :> IF SubSeq(t, 1, word) = <<"-">> THEN NullValue
                                          ELSE Text(SubSeq(t, 1, word))) @@ results)
               [] e.kind = "OptionalItem" ->
                    IF word = 0 THEN Match(rest, s, skip, results)
                    ELSE Match(rest, From(t, word), skip,
                               (e.name :> Text(SubSeq(t, 1, word))) @@ results)
               [] e.kind = "NULL | Word" ->
                    IF At(t, 1) = "(null)"
                    THEN Match(rest, Tail(t), skip, (e.name :> NullValue) @@ results)
                    ELSE IF word = 0 THEN None
                    ELSE Match(rest, From(t, word), skip,
                               (e.name :> Text(SubSeq(t, 1, word))) @@ results)
               [] e.kind = "NULL | PackageType" ->
                    IF At(t, 1) = "(null)"
                    THEN Match(rest, Tail(t), skip, (e.name :> NullValue) @@ results)
                    ELSE IF At(t, 1) \notin PackageTypes THEN None
                    ELSE Match(rest, Tail(t), skip, (e.name :> Text(<<t[1]>>)) @@ results)
               [] e.kind = "OptionalItem(1@)" ->
                    IF At(t, 1) = "1" /\ At(t, 2) = "@"
                    THEN Match(rest, From(t, 2), skip, results)
                    ELSE Match(rest, s, skip, results)
               [] e.kind = "restOfLine" ->
                    Match(rest, From(t, line), skip,
                          (e.name :> Text(SubSeq(t, 1, line))) @@ results)

(***************************************************************************)
(* The syslog parser (linehaul/syslog/parser.py).                           *)
(***************************************************************************)
\* arrow.get(timestamp) for the ISO 8601 instants of the model, as seconds since the
\* epoch; None stands for the ParserError it raises on any other text
arrow_get_iso(timestamp) ==
    IF timestamp = <<"2018-07-20T02:19:20Z">> THEN Some(1532053160)
    ELSE IF timestamp = <<"2000-01-01T00:00:00Z">> THEN Some(946684800)
    ELSE None

\* the highest value of the enum Facility
MaxFacility == 23

SP == Element("L", " ", "")
LANGLE == Element("L", "<", "")
RANGLE == Element("L", ">", "")
LBRACKET == Element("L", "[", "")
RBRACKET == Element("L", "]", "")
COLON == Element("L", ":", "")
PRIORITY == <<LANGLE, Element("Word(min=1, max=3)", "[0-9]", "priority"), RANGLE>>
SYSLOG_TIMESTAMP == Element("Word", "printables", "timestamp")
HOSTNAME == Element("NIL ^ Word", "printables", "hostname")
APPNAME == Element("Word", "printables - '['", "appname")
PROCID == <<LBRACKET, Element("Word", "printables - ']'", "procid"), RBRACKET>>
HEADER == PRIORITY \o <<SYSLOG_TIMESTAMP, SP, HOSTNAME, SP, APPNAME>> \o PROCID
SYSLOG_MESSAGE_TEXT == Element("restOfLine", "", "message")

\* SYSLOG_MESSAGE.parseString(message, parseAll=True): the named results, or None for
\* ParseException.  leaveWhitespace() was called on the grammar.
SYSLOG_MESSAGE(message) ==
    Match(HEADER \o <<COLON, SP, SYSLOG_MESSAGE_TEXT>>, message, FALSE, EmptyDict)

\* (faulty variant: the hostname is returned as it was read, "-" included)
syslog_value_as_read(value) == Some(value.text)
\* _value_or_none of the syslog parser
syslog_value_or_none(value) == IF value.null THEN None ELSE Some(value.text)

\* SyslogMessage(**data): the converters Facility(...) and arrow.get(...), which raise
SyslogMessage(data) ==
    IF data.facility > MaxFacility THEN Raises("ValueError")
    ELSE IF arrow_get_iso(data.timestamp) = None THEN Raises("ParserError")
    ELSE [tag |-> "return", value |-> [data EXCEPT !.timestamp = arrow_get_iso(@)[1]]]

\* linehaul.syslog.parser.parse(message); the parse action of PRIORITY is int(t[0])
syslog_parser_parse(message) ==
    LET FromParsed(parsed) ==
            IF parsed = None THEN Raises("UnparseableSyslogMessage")
            ELSE SyslogMessage([facility |-> int(parsed[1].priority.text) \div 8,
                                severity |-> int(parsed[1].priority.text) % 8,
                                timestamp |-> parsed[1].timestamp.text,
                                hostname |-> syslog_value_or_none(parsed[1].hostname),
                                appname |-> parsed[1].appname.text,
                                procid |-> parsed[1].procid.text,
                                message |-> parsed[1].message.text])
    IN  FromParsed(SYSLOG_MESSAGE(message))

(***************************************************************************)
(* The event parser (linehaul/events/parser.py).                            *)
(***************************************************************************)
\* printables of the event parser: pyparsing's printables, space and tab, less | and @
EventPrintables == "printables + ' ' + '\\t' - '|' - '@'"

PIPE == Element("L", "|", "")
AT == Element("L", "@", "")
TIMESTAMP == Element("Word", EventPrintables, "timestamp")
COUNTRY_CODE == Element("Word", EventPrintables, "country_code")
URL == Element("Word", EventPrintables, "url")
OptionalItem(e) == Element("OptionalItem", e.lit, e.name)
REQUEST == <<TIMESTAMP, PIPE, OptionalItem(COUNTRY_CODE), PIPE, URL>>
PROJECT_NAME == Element("NULL | Word", EventPrintables, "project_name")
VERSION == Element("NULL | Word", EventPrintables, "version")
PACKAGE_TYPE == Element("NULL | PackageType", "", "package_type")
PROJECT == <<PROJECT_NAME, PIPE, VERSION, PIPE, PACKAGE_TYPE>>
TLS_PROTOCOL == Element("NULL | Word", EventPrintables, "tls_protocol")
TLS_CIPHER == Element("NULL | Word", EventPrintables, "tls_cipher")
TLS == <<TLS_PROTOCOL, PIPE, TLS_CIPHER>>
USER_AGENT == Element("restOfLine", "", "user_agent")
SIMPLE_SIGIL == Element("L", "simple", "message_type")
SIMPLE_MESSAGE == <<SIMPLE_SIGIL, PIPE>> \o REQUEST \o <<PIPE>> \o TLS \o <<PIPE, USER_AGENT>>
DOWNLOAD_SIGIL == Element("L", "download", "message_type")
DOWNLOAD_MESSAGE ==
    <<DOWNLOAD_SIGIL, PIPE>> \o REQUEST \o <<PIPE>> \o TLS \o <<PIPE>> \o PROJECT
        \o <<PIPE, USER_AGENT>>
V1_HEADER == <<Element("OptionalItem(1@)", "", "")>>
MESSAGE_v1 == V1_HEADER \o REQUEST \o <<PIPE>> \o PROJECT \o <<PIPE, USER_AGENT>>
V2_HEADER == <<Element("L", "2", ""), AT>>
MESSAGE_v2 ==
    V2_HEADER \o REQUEST \o <<PIPE>> \o TLS \o <<PIPE>> \o PROJECT \o <<PIPE, USER_AGENT>>
V3_HEADER == <<Element("L", "3", ""), AT>>

\* MESSAGE = MESSAGE_v3 | MESSAGE_v2 | MESSAGE_v1, MESSAGE_v3 being V3_HEADER followed
\* by SIMPLE_MESSAGE | DOWNLOAD_MESSAGE: the first alternative that matches.
\* leaveWhitespace() was called on MESSAGE_v1 and on MESSAGE_v2 only.
MESSAGE(message) ==
    LET alternatives ==
            <<Match(V3_HEADER \o SIMPLE_MESSAGE, message, TRUE, EmptyDict),
              Match(V3_HEADER \o DOWNLOAD_MESSAGE, message, TRUE, EmptyDict),
              Match(MESSAGE_v2, message, FALSE, EmptyDict),
              Match(MESSAGE_v1, message, FALSE, EmptyDict)>>
        matched == {i \in 1..4 : alternatives[i] # None}
    IN  IF matched = {} THEN None
        ELSE alternatives[CHOOSE i \in matched : \A j \in matched : i <= j]

\* parsed.name of pyparsing's ParseResults: the empty string when nothing has the name
Attr(parsed, name) == IF name \in DOMAIN parsed THEN parsed[name] ELSE Text(<<>>)

\* _value_or_none of the event parser
value_or_none(value) == IF value.null \/ value.text = <<>> THEN None ELSE Some(value.text)

\* posixpath.basename(url): what follows the last "/"
basename(url) == From(url, RFind(url, "/"))

\* d[5:-4] of a timestamp text: a timestamp of the model is written as three symbols,
\* the weekday with its comma and space (5 characters), the date and time, and the
\* zone with its space (4 characters); a text of fewer symbols is shorter than 9
\* characters
Slice_5_to_minus_4(d) == IF Len(d) >= 3 THEN SubSeq(d, 2, Len(d) - 1) ELSE <<>>

\* arrow.get(text, "DD MMM YYYY HH:mm:ss"), in seconds since the epoch, UTC; None stands
\* for the ParserError it raises on a text of another form
arrow_get_DD_MMM_YYYY(text) ==
    IF text = <<"20 Jul 2018 02:19:19">> THEN Some(1532053159)
    ELSE IF text = <<"31 Jan 1970 23:59:59">> THEN Some(2678399)
    ELSE IF text = <<"01 Feb 1970 00:00:00">> THEN Some(2678400)
    ELSE None

\* the structure hook registered for arrow.Arrow
structure_Arrow(d) == arrow_get_DD_MMM_YYYY(Slice_5_to_minus_4(d))

\* cattr.structure(data, Download) for the data of _parse_download, or the exception
\* it raises: the hook for timestamp, PackageType(type), then the validators of File
structure_Download(data) ==
    IF structure_Arrow(data.timestamp) = None THEN Raises("ParserError")
    ELSE IF data.file.type = None THEN Raises("ValueError")
    ELSE IF data.file.project = None \/ data.file.version = None THEN Raises("TypeError")
    ELSE [tag |-> "return",
          value |-> [class |-> "Download",
                     timestamp |-> structure_Arrow(data.timestamp)[1],
                     url |-> data.url,
                     file |-> data.file,
                     tls_protocol |-> data.tls_protocol,
                     tls_cipher |-> data.tls_cipher,
                     country_code |-> data.country_code,
                     details |-> None]]

\* _parse_download(parsed)
parse_download(parsed) ==
    structure_Download(
        [timestamp |-> Attr(parsed, "timestamp").text,
         tls_protocol |-> value_or_none(Attr(parsed, "tls_protocol")),
         tls_cipher |-> value_or_none(Attr(parsed, "tls_cipher")),
         country_code |-> value_or_none(Attr(parsed, "country_code")),
         url |-> Attr(parsed, "url").text,
         file |-> [filename |-> basename(Attr(parsed, "url").text),
                   project |-> value_or_none(Attr(parsed, "project_name")),
                   version |-> value_or_none(Attr(parsed, "version")),
                   type |-> value_or_none(Attr(parsed, "package_type"))]])

\* url.rstrip("/")
RECURSIVE rstrip_slash(_)
rstrip_slash(url) ==
    IF url # <<>> /\ url[Len(url)] = "/" THEN rstrip_slash(SubSeq(url, 1, Len(url) - 1))
    ELSE url

\* packaging.utils.canonicalize_name of one symbol: lower case, runs of - _ . as one -
canonicalize_name(name) ==
    [i \in 1..Len(name) |-> IF name[i] = "Cfn_Flip" THEN "cfn-flip" ELSE name[i]]

\* _parse_simple(parsed) and cattr.structure(data, SimpleRequest)
parse_simple(parsed) ==
    IF structure_Arrow(Attr(parsed, "timestamp").text) = None THEN Raises("ParserError")
    ELSE [tag |-> "return",
          value |-> [class |-> "SimpleRequest",
                     timestamp |-> structure_Arrow(Attr(parsed, "timestamp").text)[1],
                     url |-> Attr(parsed, "url").text,
                     project |->
                         canonicalize_name(basename(rstrip_slash(Attr(parsed, "url").text))),
                     tls_protocol |-> value_or_none(Attr(parsed, "tls_protocol")),
                     tls_cipher |-> value_or_none(Attr(parsed, "tls_cipher")),
                     country_code |-> value_or_none(Attr(parsed, "country_code")),
                     details |-> None]]

\* _DISPATCH[parsed.message_type](parsed); only the grammar of a 3@ message names a
\* result message_type
DISPATCH(parsed) ==
    IF Attr(parsed, "message_type") = Text(<<"download">>) THEN parse_download(parsed)
    ELSE IF Attr(parsed, "message_type") = Text(<<"simple">>) THEN parse_simple(parsed)
    ELSE Raises("KeyError")

\* logging.INFO
LoggingINFO == 20

\* parse: the handler of UnknownUserAgentError, and the return that follows the try
OnUnknownUserAgent(event, user_agent, emitted) ==
    Returned(Some(event),
             Append(emitted, LogRecord("root", LoggingINFO, "Unknown User agent: %r",
                                       <<user_agent>>)))

\* linehaul.events.parser.parse(message)
event_parser_parse(message) ==
    LET WithDetails(event, user_agent, ua) ==
            IF event.tag = "raise" THEN Raised(event.exc, <<>>)
            ELSE IF ua.tag = "raise" /\ ua.exc = "UnknownUserAgentError"
            THEN OnUnknownUserAgent(event.value, user_agent, ua.logs)
            ELSE IF ua.tag = "raise" THEN Raised(ua.exc, ua.logs)
            ELSE IF ua.value = None THEN Returned(None, ua.logs)
            ELSE Returned(Some([event.value EXCEPT !.details = ua.value]), ua.logs)
        WithUserAgent(parsed, user_agent) ==
            WithDetails(DISPATCH(parsed), user_agent,
                        ua_parser_parse(user_agent, USER_AGENT_PARSERS))
        FromParsed(parsed) ==
            IF parsed = None THEN Raised("UnparseableEvent", <<>>)
            ELSE WithUserAgent(parsed[1], Attr(parsed[1], "user_agent").text)
    IN  FromParsed(MESSAGE(message))

(***************************************************************************)
(* parse_line (linehaul/server.py) and the path of its result into the      *)
(* queue.  A byte of a line is a symbol as well; "0xFF" is a byte that is   *)
(* not UTF-8, "0xC3" "0xBC" are the two bytes of the letter u-umlaut.       *)
(***************************************************************************)
\* bytes.decode("utf8", errors="replace"): the pair "0xC3" "0xBC" becomes the letter, any
\* other byte that is not ASCII becomes U+FFFD.  A "0xBC" that follows a "0xC3" is the
\* second byte of a pair, since a "0xC3" is never the second byte of one
decode(bytes) ==
    LET Paired(i) == i > 1 /\ bytes[i] = "0xBC" /\ bytes[i - 1] = "0xC3"
        Char(i) ==
            IF bytes[i] = "0xC3" /\ i < Len(bytes) /\ bytes[i + 1] = "0xBC" THEN "ü"
            ELSE IF bytes[i] \in {"0xFF", "0xC3", "0xBC"} THEN ReplacementCharacter
            ELSE bytes[i]
        marked == [i \in 1..Len(bytes) |-> IF Paired(i) THEN "" ELSE Char(i)]
    IN  SelectSeq(marked, LAMBDA c : c # "")

\* (faulty variant: the token is looked for after decoding)
line_startswith_decoded(line, token) == StartsWith(decode(line), decode(token))
\* line.startswith(token)
line_startswith(line, token) == StartsWith(line, token)

\* line[len(token):]
strip_token(line, token) == From(line, Len(token))

\* the classes of the exceptions the parsers raise; all derive from Exception
ExceptionClasses ==
    {"UnparseableSyslogMessage", "UnparseableEvent", "ValueError", "ParserError",
     "KeyError", "TypeError", "IndexError", "UnknownUserAgentError", "UnableToParse"}

\* (faulty variant: no handler for Exception, only the two parse errors are caught)
except_parse_errors_only(exc) == exc \in {"UnparseableSyslogMessage", "UnparseableEvent"}
\* whether one of the except clauses of parse_line catches exc; the last is
\* except Exception
except_clauses(exc) == exc \in ExceptionClasses

\* what parse_line comes to: raised is the exception that left it, None when it
\* returned; caught is the exception its try block raised and the parser that raised it
LineOutcome(result, emitted, raised, caught) ==
    [result |-> result, logs |-> emitted, raised |-> raised, caught |-> caught]

\* the except clauses of parse_line
HandleParseError(parser, exc, emitted) ==
    LET caught == Some([parser |-> parser, exc |-> exc])
    IN  IF ~except_clauses(exc) THEN LineOutcome(None, emitted, Some(exc), caught)
        ELSE IF exc = "UnparseableSyslogMessage"
        THEN LineOutcome(None,
                         Append(emitted,
                                LogRecord("linehaul.server", LoggingERROR,
                                          "Unparseable syslog message: %r", <<exc>>)),
                         None, caught)
        ELSE IF exc = "UnparseableEvent"
        THEN LineOutcome(None,
                         Append(emitted,
                                LogRecord("linehaul.server", LoggingERROR,
                                          "Unparseable event: %r, exc", <<>>)),
                         None, caught)
        ELSE LineOutcome(None,
                         Append(emitted,
                                LogRecord("linehaul.server", LoggingERROR,
                                          "Unhandled error:", <<>>)),
                         None, caught)

\* parse_line(line, token)
parse_line(line, token) ==
    LET FromEvent(event) ==
            IF event.tag = "raise" THEN HandleParseError("event", event.exc, event.logs)
            ELSE LineOutcome(event.value, event.logs, None, None)
        FromSyslog(syslog) ==
            IF syslog.tag = "raise" THEN HandleParseError("syslog", syslog.exc, <<>>)
            ELSE FromEvent(event_parser_parse(syslog.value.message))
    IN  IF token # None /\ ~line_startswith(line, token[1])
        THEN LineOutcome(None, <<>>, None, None)
        ELSE IF token # None
        THEN FromSyslog(syslog_parser_parse(decode(strip_token(line, token[1]))))
        ELSE FromSyslog(syslog_parser_parse(decode(line)))

\* the fields of a payload joined by "|"
RECURSIVE JoinPipe(_)
JoinPipe(fields) ==
    IF Len(fields) = 1 THEN fields[1]
    ELSE fields[1] \o <<"|">> \o JoinPipe(Tail(fields))

\* the texts the payloads of the model are made of
GoodTimestamp == <<"Fri, ", "20 Jul 2018 02:19:19", " GMT">>
GoodUrl == <<"/", "packages", "/", "ba", "/", "cfn_flip-1.0.3.tar.gz">>
Bandersnatch ==
    <<"bandersnatch", "/", "2.2.1", " ", "(", "cpython", " ", "3.7.0-final0,", " ",
      "Darwin", " ", "x86_64", ")">>
Pip18 == <<"pip", "/", "18.0", " ", PipJson18>>
MozillaCompatible ==
    <<"Mozilla", "/", "5.0", " ", "(", "compatible;", " ", "MSIE", " ", "9.0", ")">>
UnheardOf == <<"totally-unheard-of", "/", "0.1">>
GoodTls == <<<<"TLSv1.2">>, <<"ECDHE-RSA-AES128-GCM-SHA256">>>>
GoodProject == <<<<"cfn-flip">>, <<"1.0.3">>, <<"sdist">>>>
NullProject == <<<<"(null)">>, <<"(null)">>, <<"(null)">>>>

\* a 3@ download payload
Download3(timestamp, country, url, tls, project, user_agent) ==
    <<"3", "@">>
        \o JoinPipe(<<<<"download">>, timestamp, country, url>> \o tls \o project
                    \o <<user_agent>>)

\* the payloads parse_line is run on: the message of a syslog line
Payloads ==
    {<<"2", "@">> \o JoinPipe(<<GoodTimestamp, <<"JP">>, GoodUrl>> \o GoodTls \o GoodProject
                              \o <<Bandersnatch>>),
     <<"2", "@">> \o JoinPipe(<<GoodTimestamp, <<"JP">>, GoodUrl>> \o GoodTls
                              \o <<<<"(null)">>, <<"1.0.3">>, <<"sdist">>, Bandersnatch>>),
     <<"1", "@">> \o JoinPipe(<<GoodTimestamp, <<>>, GoodUrl>> \o NullProject \o <<Pip18>>),
     JoinPipe(<<GoodTimestamp, <<>>, GoodUrl>> \o NullProject \o <<Pip18>>),
     JoinPipe(<<GoodTimestamp, <<"JP">>, GoodUrl>> \o GoodProject \o <<Bandersnatch>>),
     Download3(GoodTimestamp, <<"JP">>, GoodUrl, GoodTls, GoodProject, Bandersnatch),
     Download3(GoodTimestamp, <<>>, GoodUrl, <<<<"(null)">>, <<"(null)">>>>, GoodProject,
               Pip18),
     Download3(GoodTimestamp, <<>>, GoodUrl, GoodTls, NullProject, Pip18),
     Download3(GoodTimestamp, <<"JP">>, GoodUrl, GoodTls,
               <<<<"(null)">>, <<"1.0.3">>, <<"sdist">>>>, Bandersnatch),
     Download3(GoodTimestamp, <<"JP">>, GoodUrl, GoodTls,
               <<<<"cfn-flip">>, <<"1.0.3">>, <<"(null)">>>>, Bandersnatch),
     Download3(GoodTimestamp, <<"JP">>, GoodUrl, GoodTls,
               <<<<"cfn-flip">>, <<"1.0.3">>, <<"tarball">>>>, Bandersnatch),
     Download3(GoodTimestamp, <<"JP">>, GoodUrl, GoodTls, GoodProject, MozillaCompatible),
     Download3(GoodTimestamp, <<"JP">>, GoodUrl, GoodTls, GoodProject,
               <<"Mozilla", "/", "5.0", " ", "(", "compatible;", " ", "Nutch", ")">>),
     Download3(GoodTimestamp, <<"JP">>, GoodUrl, GoodTls, GoodProject, UnheardOf),
     Download3(GoodTimestamp, <<"JP">>, GoodUrl, GoodTls, GoodProject,
               <<"Debian", " ", "uscan", "/", "1.0">>),
     Download3(GoodTimestamp, <<"JP">>, GoodUrl, GoodTls, GoodProject,
               <<"pip", "/", "18.0", " ", "{not json">>),
     Download3(GoodTimestamp, <<"JP">>, GoodUrl, GoodTls, GoodProject, <<"pip", "/", "5.1">>),
     Download3(GoodTimestamp, <<"JP">>, GoodUrl, GoodTls, GoodProject, <<>>),
     Download3(<<"yesterday">>, <<"JP">>, GoodUrl, GoodTls, GoodProject, Bandersnatch),
     Download3(GoodTimestamp, <<"JP">>, <<"/", "packages", "/", "0xFF">>, GoodTls,
               GoodProject, Bandersnatch),
     Download3(GoodTimestamp, <<"JP">>, GoodUrl, GoodTls, GoodProject,
               <<"0xC3", "0xBC", "ber-agent">>),
     <<"3", "@">> \o JoinPipe(<<<<"simple">>, GoodTimestamp, <<"JP">>,
                                <<"/", "simple", "/", "Cfn_Flip", "/">>>> \o GoodTls
                              \o <<Bandersnatch>>),
     <<"3", "@", "upload", "|">>,
     <<"garbage">>,
     <<>>}

\* the syslog headers of the model, up to the space after the colon: the header of the
\* scenarios, one with hostname "-", and ones that are off
GoodHeader ==
    <<"<", "1", "3", "4", ">", "2018-07-20T02:19:20Z", " ", "cache-itm18828", " ",
      "linehaul", "[", "411617", "]", ":", " ">>

Headers ==
    {GoodHeader,
     <<"<", "0", ">", "2000-01-01T00:00:00Z", " ", "-", " ", "linehaul", "[", "1", "]", ":",
       " ">>,
     <<"<", "1", "9", "2", ">">> \o From(GoodHeader, 5),
     <<"<", "9", "9", "9", ">">> \o From(GoodHeader, 5),
     <<"<", "1", "3", "4", "0", ">">> \o From(GoodHeader, 5),
     <<"<", "1", "3", "4", ">", "yesterday">> \o From(GoodHeader, 6),
     <<"<", "1", "3", "4", ">", "2018-07-20T02:19:20Z", " ", "cache-itm18828", " ",
       "linehaul", ":", " ">>,
     SubSeq(GoodHeader, 1, 14),
     <<>>}

\* what may stand before the header: nothing, a token, part of one
Prefixes == {<<>>, <<"to", "ken">>, <<"to">>, <<"0xFF">>, <<"0xC3">>}

\* the token argument
Tokens == {None, Some(<<"to", "ken">>), Some(<<"0xFF">>)}

\* the lines parse_line is called with: as LineReceiver frames them, with their newline,
\* and bare
Lines ==
    {prefix \o header \o payload \o ending :
        prefix \in Prefixes, header \in Headers, payload \in Payloads,
        ending \in {<<>>, <<"\n">>}}

VARIABLES
    plToken,    \* the token the handler was started with
    plLine,     \* the line the receiver framed
    plPc,       \* "line": parse_line not yet called; "parsed"; "raised"; "put"
    plOutcome,  \* what parse_line returned or raised, and the records it logged
    plLines,    \* the list receive_data returns to the handler
    plQueue     \* the input queue

plVars == <<plToken, plLine, plPc, plOutcome, plLines, plQueue>>

\* LineReceiver.receive_data: line = self._callback(...), kept when it is not None
PLCallback ==
    /\ plPc = "line"
    /\ \E line \in {plLine}, token \in {plToken} : \E outcome \in {parse_line(line, token)} :
          /\ plOutcome' = outcome
          /\ plPc' = IF outcome.raised # None THEN "raised" ELSE "parsed"
          /\ plLines' = IF outcome.raised = None /\ outcome.result # None
                        THEN <<outcome.result[1]>> ELSE <<>>
    /\ UNCHANGED <<plToken, plLine, plQueue>>

\* handle_connection: for event in lr.receive_data(data): await q.put(event)
PLPut ==
    /\ plPc = "parsed"
    /\ plLines # <<>>
    /\ plQueue' = Append(plQueue, Head(plLines))
    /\ plLines' = Tail(plLines)
    /\ plPc' = "put"
    /\ UNCHANGED <<plToken, plLine, plOutcome>>

PLInit ==
    /\ plToken \in Tokens
    /\ plLine \in Lines
    /\ plPc = "line"
    /\ plOutcome = LineOutcome(None, <<>>, None, None)
    /\ plLines = <<>>
    /\ plQueue = <<>>

(***************************************************************************)
(* ParserSet (linehaul/ua/impl.py).  The parsers registered are callables   *)
(* of the kind the tests register: each returns data for some texts,        *)
(* raises UnableToParse for others and fails with another exception for     *)
(* yet others.                                                              *)
(***************************************************************************)
PSParserNames == {"parser1", "parser2", "parser3"}

\* the texts a ParserSet is called with
PSInputs == {"one", "two", "three", "four"}

\* parser(user_agent) for the three parsers: parser1 and parser2 both take "one" and
\* return different data, parser2 and parser3 both take "two" and return the same,
\* parser3 fails on "three" and on "four"
parser_call(parser, user_agent) ==
    CASE parser = "parser1" ->
            IF user_agent = "one" THEN Data("1") ELSE Raises("UnableToParse")
      [] parser = "parser2" ->
            IF user_agent \in {"one", "two", "three"} THEN Data("2")
            ELSE Raises("UnableToParse")
      [] parser = "parser3" ->
            IF user_agent = "two" THEN Data("2")
            ELSE IF user_agent = "one" THEN Raises("UnableToParse")
            ELSE Raises("ValueError")

\* what a call of a ParserSet comes to: the value returned or the exception raised,
\* the records logged, and the parser that was counted a hit
PSReturned(value, emitted, parser) ==
    [tag |-> "return", value |-> value, logs |-> emitted, hit |-> Some(parser)]
PSRaised(exc, emitted) == [tag |-> "raise", value |-> exc, logs |-> emitted, hit |-> None]

\* (faulty variant: an exception that is not UnableToParse ends the loop)
RECURSIVE TryParsers_stops_on_error(_, _, _)
TryParsers_stops_on_error(parsers, user_agent, emitted) ==
    IF parsers = <<>> THEN PSRaised("UnableToParse", emitted)
    ELSE IF parser_call(Head(parsers), user_agent).tag = "data"
    THEN PSReturned(parser_call(Head(parsers), user_agent).data, emitted, Head(parsers))
    ELSE IF parser_call(Head(parsers), user_agent).exc = "UnableToParse"
    THEN TryParsers_stops_on_error(Tail(parsers), user_agent, emitted)
    ELSE PSRaised("UnableToParse",
                  Append(emitted, LogRecord("linehaul.ua.impl", LoggingERROR,
                                            "Error parsing %r as a %s.",
                                            <<user_agent, Head(parsers)>>)))
\* (faulty variant: a parser that raises UnableToParse is logged like any other failure)
RECURSIVE TryParsers_logs_every_skip(_, _, _)
TryParsers_logs_every_skip(parsers, user_agent, emitted) ==
    IF parsers = <<>> THEN PSRaised("UnableToParse", emitted)
    ELSE IF parser_call(Head(parsers), user_agent).tag = "data"
    THEN PSReturned(parser_call(Head(parsers), user_agent).data, emitted, Head(parsers))
    ELSE TryParsers_logs_every_skip(Tail(parsers), user_agent,
                  Append(emitted, LogRecord("linehaul.ua.impl", LoggingERROR,
                                            "Error parsing %r as a %s.",
                                            <<user_agent, Head(parsers)>>)))
\* the for loop of ParserSet.__call__ over parsers, and the raise that follows it
RECURSIVE TryParsers(_, _, _)
TryParsers(parsers, user_agent, emitted) ==
    IF parsers = <<>> THEN PSRaised("UnableToParse", emitted)
    ELSE IF parser_call(Head(parsers), user_agent).tag = "data"
    THEN PSReturned(parser_call(Head(parsers), user_agent).data, emitted, Head(parsers))
    ELSE IF parser_call(Head(parsers), user_agent).exc = "UnableToParse"
    THEN TryParsers(Tail(parsers), user_agent, emitted)
    ELSE TryParsers(Tail(parsers), user_agent,
                  Append(emitted, LogRecord("linehaul.ua.impl", LoggingERROR,
                                            "Error parsing %r as a %s.",
                                            <<user_agent, Head(parsers)>>)))

\* the orders random.shuffle can leave a list in
PermutationsOf(list) ==
    {s \in [1..Len(list) -> Range(list)] : Range(s) = Range(list)}

\* s without its i-th element
Without(s, i) == SubSeq(s, 1, i - 1) \o SubSeq(s, i + 1, Len(s))

\* (faulty variant: parsers that were never hit are dropped from the list)
sort_drops_unused(parsers, counts) == SelectSeq(parsers, LAMBDA p : counts[p] > 0)
\* list.sort(key=lambda p: self._counts[p], reverse=True): stable, highest count first
RECURSIVE sort_by_counts(_, _)
sort_by_counts(parsers, counts) ==
    IF parsers = <<>> THEN <<>>
    ELSE LET first == CHOOSE i \in 1..Len(parsers) :
                          /\ \A j \in 1..Len(parsers) : counts[parsers[j]] <= counts[parsers[i]]
                          /\ \A j \in 1..(i - 1) : counts[parsers[j]] < counts[parsers[i]]
         IN  <<parsers[first]>> \o sort_by_counts(Without(parsers, first), counts)

\* (faulty variant: every count is replaced by its half)
subtract_half_keeps_half(counts) == [p \in DOMAIN counts |-> counts[p] \div 2]
\* self._counts.subtract({k: int(v * 0.5) for k, v in self._counts.items()})
subtract_half(counts) == [p \in DOMAIN counts |-> counts[p] - (counts[p] \div 2)]

\* the values given to _optimize_every: a quarter of it is below one dispatch, or
\* exactly one
OptimizeEverys == {2, 3, 4}

VARIABLES
    psParsers,        \* self._parsers
    psRegistered,     \* the list as register left it
    psCounts,         \* self._counts
    psOptimizeEvery,  \* self._optimize_every
    psOptimizeIn,     \* self._optimize_in, counted in quarters
    psCalls,          \* the calls made
    psInput,          \* the text of the last call
    psOutcome         \* what the last call came to

psVars ==
    <<psParsers, psRegistered, psCounts, psOptimizeEvery, psOptimizeIn, psCalls, psInput,
      psOutcome>>

\* ParserSet.__init__ (and the test's choice of _optimize_every); _optimize_in is
\* _optimize_every * 0.25
PSInit ==
    /\ psParsers = <<>>
    /\ psRegistered = <<>>
    /\ psCounts = [p \in PSParserNames |-> 0]
    /\ psOptimizeEvery \in OptimizeEverys
    /\ psOptimizeIn = psOptimizeEvery
    /\ psCalls = 0
    /\ psInput = ""
    /\ psOutcome = [tag |-> "pending", value |-> "", logs |-> <<>>, hit |-> None]

\* ParserSet.register(parser, _randomize=randomize)
PSRegister ==
    /\ psCalls = 0
    /\ \E parser \in PSParserNames \ Range(psParsers), randomize \in BOOLEAN :
          /\ psParsers' \in IF randomize THEN PermutationsOf(Append(psParsers, parser))
                            ELSE {Append(psParsers, parser)}
          /\ psRegistered' = psParsers'
    /\ UNCHANGED <<psCounts, psOptimizeEvery, psOptimizeIn, psCalls, psInput, psOutcome>>

\* ParserSet.__call__(user_agent), _optimize included
PSCall ==
    /\ psCalls < MaxCalls
    /\ \E user_agent \in PSInputs :
       \E optimize \in {psOptimizeIn - 4 <= 0} :
       \E parsers \in {IF optimize THEN sort_by_counts(psParsers, psCounts) ELSE psParsers},
          counts \in {IF optimize THEN subtract_half(psCounts) ELSE psCounts} :
       \E outcome \in {TryParsers(parsers, user_agent, <<>>)} :
          /\ psOptimizeIn' = IF optimize THEN 4 * psOptimizeEvery ELSE psOptimizeIn - 4
          /\ psParsers' = parsers
          /\ psCounts' = IF outcome.hit = None THEN counts
                         ELSE [counts EXCEPT ![outcome.hit[1]] = @ + 1]
          /\ psInput' = user_agent
          /\ psOutcome' = outcome
    /\ psCalls' = psCalls + 1
    /\ UNCHANGED <<psRegistered, psOptimizeEvery>>

(***************************************************************************)
(* Syslog lines written and read back (tests/syslog/test_parser.py), and    *)
(* syslog lines as they arrive.                                             *)
(***************************************************************************)
\* the digit of a value below ten
Digit(n) == CHOOSE c \in {"0", "1", "2", "3", "4", "5", "6", "7", "8", "9"} : DigitValue(c) = n

\* str(n) of a natural number: its decimal digits
RECURSIVE str(_)
str(n) == IF n < 10 THEN <<Digit(n)>> ELSE str(n \div 10) \o <<Digit(n % 10)>>

\* f"{timestamp.isoformat()}Z" for the instants of the model
isoformat_Z(timestamp) ==
    CASE timestamp = 1532053160 -> <<"2018-07-20T02:19:20Z">>
      [] timestamp = 946684800 -> <<"2000-01-01T00:00:00Z">>

\* _unparse_syslog_message(sm)
unparse_syslog_message(sm) ==
    <<"<">> \o str(sm.facility * 8 + sm.severity) \o <<">">> \o isoformat_Z(sm.timestamp)
        \o <<" ">> \o (IF sm.hostname = None THEN <<"-">> ELSE sm.hostname[1])
        \o <<" ">> \o sm.appname \o <<"[">> \o sm.procid \o <<"]", ":", " ">> \o sm.message

\* the highest value of the enum Severity
MaxSeverity == 7

\* the highest priority of a syslog line: facility local7, severity debug
MaxPriority == 191

\* the highest number three digits write
MaxThreeDigits == 999

\* the SyslogMessage values that are written and read back
SyslogValues ==
    [facility : 0..MaxFacility,
     severity : 0..MaxSeverity,
     timestamp : {946684800, 1532053160},
     hostname : {None, Some(<<"cache-itm18828">>), Some(<<"-", "0">>)},
     appname : {<<"linehaul">>, <<"0", ":", "-">>},
     procid : {<<"411617">>, <<"-">>},
     message : {<<"0">>, <<" ", "[", "a", "]", ":", " ", "<", "1", ">", " ">>, <<"ü", "\r">>}]

\* what follows the priority of a line that is well formed
WellFormedRests ==
    {<<"2018-07-20T02:19:20Z", " ", "cache-itm18828", " ", "linehaul", "[", "411617", "]",
       ":", " ", "message">>,
     <<"2000-01-01T00:00:00Z", " ", "-", " ", "linehaul", "[", "1", "]", ":", " ">>}

\* what follows the priority of a line that is not
MalformedRests ==
    {<<"yesterday", " ", "cache-itm18828", " ", "linehaul", "[", "411617", "]", ":", " ",
       "message">>,
     <<"2018-07-20T02:19:20Z", " ", "cache-itm18828", " ", "linehaul", ":", " ", "message">>,
     <<"2018-07-20T02:19:20Z", " ", "cache-itm18828", " ", "linehaul", "[", "411617", "]",
       ":", "message">>,
     <<"2018-07-20T02:19:20Z", " ", " ", "cache-itm18828", " ", "linehaul", "[", "411617",
       "]", ":", " ", "message">>,
     <<"2018-07-20T02:19:20Z", " ", "cache-itm18828", " ", "linehaul", "[", "411617", "]",
       ":", " ", "message", "\n", "more">>}

\* the priorities as they are written: every number of one to three digits without
\* leading zeros, and some texts that are not such a number
PriorityTexts ==
    {str(n) : n \in 0..MaxThreeDigits}
        \cup {<<>>, <<"0", "0", "7">>, <<"1", "3", "4", "0">>, <<"-", "1">>, <<"1", " ">>}

\* the lines the syslog parser is given
SyslogLines ==
    {<<"<">> \o pri \o <<">">> \o rest :
        pri \in PriorityTexts, rest \in WellFormedRests \cup MalformedRests}

VARIABLES
    slValue,    \* the SyslogMessage that is written, None when the line came as it is
    slLine,     \* the line
    slPc,       \* "value": to be written; "line": to be parsed; "done"
    slOutcome   \* what parse returned or raised

slVars == <<slValue, slLine, slPc, slOutcome>>

\* line = _unparse_syslog_message(syslog_message)
SLUnparse ==
    /\ slPc = "value"
    /\ slLine' = unparse_syslog_message(slValue[1])
    /\ slPc' = "line"
    /\ UNCHANGED <<slValue, slOutcome>>

\* parse(line)
SLParse ==
    /\ slPc = "line"
    /\ \E line \in {slLine} : slOutcome' = syslog_parser_parse(line)
    /\ slPc' = "done"
    /\ UNCHANGED <<slValue, slLine>>

SLInit ==
    /\ slOutcome = [tag |-> "pending"]
    /\ \/ /\ slPc = "value"
          /\ slValue \in {Some(sm) : sm \in SyslogValues}
          /\ slLine = <<>>
       \/ /\ slPc = "line"
          /\ slValue = None
          /\ slLine \in SyslogLines

(***************************************************************************)
(* The migrator (linehaul/migration.py) and the two calls it makes on the   *)
(* sink (linehaul/bigquery/client.py).  A schema is a list of columns; a    *)
(* column has a name, a type, a mode and, when its type is RECORD, fields.  *)
(***************************************************************************)
Column(name, type, mode, fields) ==
    [name |-> name, type |-> type, mode |-> mode, fields |-> fields]

\* what validate_schema comes to: it returns None or raises ValueError
Valid == [tag |-> "return"]
Invalid(msg) == [tag |-> "raise", exc |-> "ValueError", msg |-> msg]

\* (faulty variant: the fields of a RECORD column are not looked at)
RECURSIVE validate_schema_flat(_, _)
validate_schema_flat(existing, desired) ==
    IF existing = <<>> /\ desired = <<>> THEN Valid
    ELSE IF desired = <<>> THEN Invalid("Cannot remove columns")
    ELSE IF existing = <<>>
    THEN IF Head(desired).mode \notin {"NULLABLE", "REPEATED"}
         THEN Invalid("Cannot add non NULLABLE/REPEATED column")
         ELSE validate_schema_flat(<<>>, Tail(desired))
    ELSE IF Head(existing).name # Head(desired).name THEN Invalid("Found column named")
    ELSE IF Head(existing).type # Head(desired).type THEN Invalid("Cannot change type")
    ELSE IF /\ Head(existing).mode # Head(desired).mode
            /\ ~(Head(existing).mode = "REQUIRED" /\ Head(desired).mode = "NULLABLE")
    THEN Invalid("Cannot change mode")
    ELSE validate_schema_flat(Tail(existing), Tail(desired))
\* validate_schema(existing, desired): the loop over zip_longest, which ends at the
\* first raise
RECURSIVE validate_schema(_, _)
validate_schema(existing, desired) ==
    IF existing = <<>> /\ desired = <<>> THEN Valid
    ELSE IF desired = <<>> THEN Invalid("Cannot remove columns")
    ELSE IF existing = <<>>
    THEN IF Head(desired).mode \notin {"NULLABLE", "REPEATED"}
         THEN Invalid("Cannot add non NULLABLE/REPEATED column")
         ELSE validate_schema(<<>>, Tail(desired))
    ELSE IF Head(existing).name # Head(desired).name THEN Invalid("Found column named")
    ELSE IF Head(existing).type # Head(desired).type THEN Invalid("Cannot change type")
    ELSE IF /\ Head(existing).mode # Head(desired).mode
            /\ ~(Head(existing).mode = "REQUIRED" /\ Head(desired).mode = "NULLABLE")
    THEN Invalid("Cannot change mode")
    ELSE IF /\ Head(existing).type = "RECORD"
            /\ validate_schema(Head(existing).fields, Head(desired).fields).tag = "raise"
    THEN validate_schema(Head(existing).fields, Head(desired).fields)
    ELSE validate_schema(Tail(existing), Tail(desired))

\* BigQuery.get_schema(table) on a 200 response:
\* resp.json().get("schema", {}).get("fields", []); a table is None when its resource
\* has no schema
get_schema(table) == IF table = None THEN Some(<<>>) ELSE Some(table[1])

\* the fields a RECORD column of the model may have
NestedFields ==
    {<<Column("x", "STRING", "REQUIRED", <<>>)>>,
     <<Column("x", "STRING", "NULLABLE", <<>>)>>,
     <<Column("x", "STRING", "NULLABLE", <<>>), Column("y", "STRING", "REQUIRED", <<>>)>>,
     <<Column("x", "STRING", "NULLABLE", <<>>), Column("y", "STRING", "REPEATED", <<>>)>>}

\* the columns of the model
Columns ==
    {Column("a", "STRING", mode, <<>>) : mode \in {"REQUIRED", "NULLABLE", "REPEATED"}}
        \cup {Column("a", "INTEGER", "NULLABLE", <<>>)}
        \cup {Column("b", "STRING", mode, <<>>) : mode \in {"REQUIRED", "NULLABLE"}}
        \cup {Column("r", "RECORD", mode, fields) :
                mode \in {"REQUIRED", "NULLABLE"}, fields \in NestedFields}

\* the schemas of the model: the lists of no, one and two columns
Schemas ==
    {<<>>} \cup {<<c>> : c \in Columns} \cup {<<c, d>> : c \in Columns, d \in Columns}

VARIABLES
    mgTable,       \* the schema of the table at the sink, None when it has none
    mgDesired,     \* new_schema
    mgPc,          \* "start"; "fetched"; "updated"; "raised"
    mgCurrent,     \* current_schema, once get_schema has returned
    mgValidation,  \* what validate_schema came to, None when it was not called
    mgUpdates      \* the schemas update_schema was called with

mgVars == <<mgTable, mgDesired, mgPc, mgCurrent, mgValidation, mgUpdates>>

\* migrate: current_schema = await bq.get_schema(table)
MigrateFetch ==
    /\ mgPc = "start"
    /\ mgCurrent' = get_schema(mgTable)
    /\ mgPc' = "fetched"
    /\ UNCHANGED <<mgTable, mgDesired, mgValidation, mgUpdates>>

\* migrate: bq.get_schema(table) raises BigQueryError on a response other than 200
MigrateFetchFails ==
    /\ mgPc = "start"
    /\ mgPc' = "fetch failed"
    /\ UNCHANGED <<mgTable, mgDesired, mgCurrent, mgValidation, mgUpdates>>

\* (faulty variant: the schema is updated before it is validated)
MigrateUpdateAndValidate ==
    /\ mgPc = "fetched"
    /\ \E validation \in {IF mgCurrent # None
                          THEN Some(validate_schema(mgCurrent[1], mgDesired))
                          ELSE None} :
          /\ mgValidation' = validation
          /\ mgUpdates' = Append(mgUpdates, mgDesired)
          /\ mgTable' = Some(mgDesired)
          /\ mgPc' = IF validation # None /\ validation[1].tag = "raise" THEN "raised"
                     ELSE "updated"
    /\ UNCHANGED <<mgDesired, mgCurrent>>

\* migrate: validate_schema when current_schema is not None, then
\* await bq.update_schema(table, new_schema)
MigrateValidateAndUpdate ==
    /\ mgPc = "fetched"
    /\ \E validation \in {IF mgCurrent # None
                          THEN Some(validate_schema(mgCurrent[1], mgDesired))
                          ELSE None} :
          /\ mgValidation' = validation
          /\ IF validation # None /\ validation[1].tag = "raise"
             THEN mgPc' = "raised" /\ UNCHANGED <<mgTable, mgUpdates>>
             ELSE /\ mgPc' = "updated"
                  /\ mgUpdates' = Append(mgUpdates, mgDesired)
                  /\ mgTable' = Some(mgDesired)
    /\ UNCHANGED <<mgDesired, mgCurrent>>

MigrateInit ==
    /\ mgTable \in {None} \cup {Some(schema) : schema \in Schemas}
    /\ mgDesired \in Schemas
    /\ mgPc = "start"
    /\ mgCurrent = None
    /\ mgValidation = None
    /\ mgUpdates = <<>>

(***************************************************************************)
(* One connection from its bytes to the sender (handle_connection,          *)
(* LineReceiver.receive_data and the queue between handler and sender).     *)
(* parse_line stands for any callback that returns a record for some lines  *)
(* and None for others, as the callback of test_skips_none_return_callback  *)
(* does: the record of a line is the line and its place among the lines     *)
(* handed to the callback.                                                  *)
(***************************************************************************)
\* the lines the callback returns None for
SkippedLines == {<<NL>>, <<0, NL>>, <<97, NL>>}

\* (faulty variant: the records of one call are returned last first)
RECURSIVE EventsOfReversed(_, _, _)
EventsOfReversed(lines, skipped, handed) ==
    IF lines = <<>> THEN <<>>
    ELSE EventsOfReversed(Tail(lines), skipped, handed + 1)
            \o (IF Head(lines) = skipped THEN <<>>
                ELSE <<[line |-> Head(lines), n |-> handed + 1]>>)
\* the list receive_data returns when the callback skips the line skipped: the
\* callback's results that are not None, in the order of the calls; handed is the
\* number of lines handed to the callback before
RECURSIVE EventsOf(_, _, _)
EventsOf(lines, skipped, handed) ==
    IF lines = <<>> THEN <<>>
    ELSE (IF Head(lines) = skipped THEN <<>>
          ELSE <<[line |-> Head(lines), n |-> handed + 1]>>)
            \o EventsOf(Tail(lines), skipped, handed + 1)

VARIABLES
    cnSkipped,   \* the line the callback returns None for
    cnQsize,     \* the capacity of the queue
    cnMaxLineSize, \* lr._max_line_size
    cnStream,    \* the bytes received so far
    cnBuffer,    \* lr._buffer
    cnSearched,  \* lr._searched
    cnState,     \* "open"; "closed" (end of stream); "truncated" (TruncatedLineError
                 \* from lr.close()); "dropped" (BufferTooLargeError)
    cnHanded,    \* the lines handed to the callback, in the order of the calls
    cnPending,   \* the records of the last receive_data not yet put
    cnSuspended, \* TRUE while the handler waits in q.put on a full queue
    cnSuspensions, \* how many puts found the queue full
    cnQueue,     \* the queue
    cnPut,       \* the records put, in the order of the puts
    cnGot        \* the records the sender took, in the order it took them

cnVars ==
    <<cnSkipped, cnQsize, cnMaxLineSize, cnStream, cnBuffer, cnSearched, cnState, cnHanded,
      cnPending, cnSuspended, cnSuspensions, cnQueue, cnPut, cnGot>>

\* handle_connection: data = await stream.receive_some(recv_size), then
\* lr.receive_data(data); an empty data is the end of the stream, and lr.close()
\* follows once the events of that call are put
ConnReceive ==
    /\ cnState = "open"
    /\ cnPending = <<>>
    /\ \E data \in Chunks :
          /\ Len(cnStream) + Len(data) <= MaxStream
          /\ cnStream' = cnStream \o data
          /\ IF TooLarge(cnBuffer \o data, cnMaxLineSize)
             THEN /\ cnState' = "dropped"
                  /\ cnBuffer' = cnBuffer \o data
                  /\ UNCHANGED <<cnSearched, cnHanded, cnPending>>
             ELSE \E r \in {ReceiveLoop(cnBuffer \o data, cnSearched, <<>>)} :
                     /\ cnBuffer' = r.buffer
                     /\ cnSearched' = r.searched
                     /\ cnHanded' = cnHanded \o r.lines
                     /\ cnPending' = EventsOf(r.lines, cnSkipped, Len(cnHanded))
                     /\ cnState' = IF data # <<>> THEN "open"
                                  ELSE IF Len(r.buffer) # 0 THEN "truncated"
                                  ELSE "closed"
    /\ UNCHANGED <<cnSkipped, cnQsize, cnMaxLineSize, cnSuspended, cnSuspensions, cnQueue, cnPut,
                   cnGot>>

\* handle_connection: await q.put(event) for the next event of the list; on a full
\* queue the handler is suspended
ConnPut ==
    /\ cnPending # <<>>
    /\ IF Len(cnQueue) < cnQsize
       THEN /\ cnQueue' = Append(cnQueue, Head(cnPending))
            /\ cnPut' = Append(cnPut, Head(cnPending))
            /\ cnPending' = Tail(cnPending)
            /\ cnSuspended' = FALSE
            /\ UNCHANGED cnSuspensions
       ELSE /\ ~cnSuspended
            /\ cnSuspended' = TRUE
            /\ cnSuspensions' = cnSuspensions + 1
            /\ UNCHANGED <<cnQueue, cnPut, cnPending>>
    /\ UNCHANGED <<cnSkipped, cnQsize, cnMaxLineSize, cnStream, cnBuffer, cnSearched, cnState,
                   cnHanded, cnGot>>

\* sender: batch.append(await q.get())
ConnGet ==
    /\ cnQueue # <<>>
    /\ cnGot' = Append(cnGot, Head(cnQueue))
    /\ cnQueue' = Tail(cnQueue)
    /\ UNCHANGED <<cnSkipped, cnQsize, cnMaxLineSize, cnStream, cnBuffer, cnSearched, cnState,
                   cnHanded, cnPending, cnSuspended, cnSuspensions, cnPut>>

ConnInit ==
    /\ cnSkipped \in SkippedLines
    /\ cnQsize \in QueueSizes
    /\ cnMaxLineSize \in {InitMaxLineSize(arg) : arg \in {None, Some(MaxLineSizeArg)}}
    /\ cnStream = <<>>
    /\ cnBuffer = <<>>
    /\ cnSearched = 0
    /\ cnState = "open"
    /\ cnHanded = <<>>
    /\ cnPending = <<>>
    /\ cnSuspended = FALSE
    /\ cnSuspensions = 0
    /\ cnQueue = <<>>
    /\ cnPut = <<>>
    /\ cnGot = <<>>

(***************************************************************************)
(* Shutdown of server().  server() runs the sender and the listener in one  *)
(* nursery; serve_tcp runs the handlers in a nursery of its own inside it,   *)
(* and sender() runs its send tasks in a nursery of its own inside it.  A    *)
(* shutdown (KeyboardInterrupt under trio.run, or cancelling the scope       *)
(* around server) cancels the scope all of these tasks run in: each task     *)
(* gets trio.Cancelled at the checkpoint it waits in, in whatever order the  *)
(* scheduler runs them.  Records are numbered in the order they are put on   *)
(* the queue; the split of a batch by day is left out (all records of a run  *)
(* fall on one day), so a closed window starts one send task.                *)
(***************************************************************************)
VARIABLES
    sdQsize,      \* the capacity given to trio.Queue
    sdBatchSize,  \* sender's batch_size after its default is applied
    sdCancelled,  \* TRUE once the scope server() runs in is cancelled
    sdListener,   \* "serving" (in accept) or "cancelled"
    sdHandler,    \* per connection: "none" (not accepted), "recv", "put", "exit"
                  \* (returned at end of stream), "cancelled"
    sdPending,    \* per connection: the events of the last receive_data not yet put
    sdCreated,    \* the number of records parsed so far
    sdPuts,       \* the number of records put on the queue so far
    sdQueue,      \* the queue, oldest record first
    sdSender,     \* "get" (in q.get), "cancelled" (in the __aexit__ of its nursery,
                  \* waiting for the send tasks), "exit"
    sdBatch,      \* sender's batch of the open window
    sdTasks,      \* the send tasks started: [batch, state], state "running", "done"
                  \* or "cancelled"
    sdServer      \* "running" or "returned"

sdVars ==
    <<sdQsize, sdBatchSize, sdCancelled, sdListener, sdHandler, sdPending, sdCreated, sdPuts,
      sdQueue, sdSender, sdBatch, sdTasks, sdServer>>

\* nursery.start_soon(partial(send_batch, ..., batch, ...))
StartSendTask(tasks, b) == Append(tasks, [batch |-> b, state |-> "running"])

\* sender: the batch after batch.append(await q.get()) left the inner loop or not
BatchAfterGet(b, size) == IF Len(b) < size THEN b ELSE <<>>

\* serve_tcp accepts a connection and starts handle_connection for it
ShutdownAccept(c) ==
    /\ ~sdCancelled
    /\ sdListener = "serving"
    /\ sdHandler[c] = "none"
    /\ sdHandler' = [sdHandler EXCEPT ![c] = "recv"]
    /\ UNCHANGED <<sdQsize, sdBatchSize, sdCancelled, sdListener, sdPending, sdCreated, sdPuts,
                   sdQueue, sdSender, sdBatch, sdTasks, sdServer>>

\* handle_connection: receive_some returned data and receive_data n events
ShutdownReceive(c) ==
    /\ ~sdCancelled
    /\ sdHandler[c] = "recv"
    /\ \E n \in 1..MaxEventsPerRead :
          /\ sdCreated + n <= MaxRecords
          /\ sdCreated' = sdCreated + n
          /\ sdPending' = [sdPending EXCEPT ![c] = n]
    /\ sdHandler' = [sdHandler EXCEPT ![c] = "put"]
    /\ UNCHANGED <<sdQsize, sdBatchSize, sdCancelled, sdListener, sdPuts, sdQueue, sdSender,
                   sdBatch, sdTasks, sdServer>>

\* handle_connection: receive_some returned b"": lr.close(), break, stream.aclose()
ShutdownEndOfStream(c) ==
    /\ ~sdCancelled
    /\ sdHandler[c] = "recv"
    /\ sdHandler' = [sdHandler EXCEPT ![c] = "exit"]
    /\ UNCHANGED <<sdQsize, sdBatchSize, sdCancelled, sdListener, sdPending, sdCreated, sdPuts,
                   sdQueue, sdSender, sdBatch, sdTasks, sdServer>>

\* handle_connection: await q.put(event) returns
ShutdownPut(c) ==
    /\ ~sdCancelled
    /\ sdHandler[c] = "put"
    /\ Len(sdQueue) < sdQsize
    /\ sdQueue' = Append(sdQueue, sdPuts + 1)
    /\ sdPuts' = sdPuts + 1
    /\ sdPending' = [sdPending EXCEPT ![c] = @ - 1]
    /\ sdHandler' = [sdHandler EXCEPT ![c] = IF sdPending[c] = 1 THEN "recv" ELSE "put"]
    /\ UNCHANGED <<sdQsize, sdBatchSize, sdCancelled, sdListener, sdCreated, sdSender, sdBatch,
                   sdTasks, sdServer>>

\* sender: batch.append(await q.get()); a full batch leaves the inner loop and is
\* handed to a send task
ShutdownGet ==
    /\ ~sdCancelled
    /\ sdSender = "get"
    /\ sdQueue # <<>>
    /\ sdQueue' = Tail(sdQueue)
    /\ \E b \in {Append(sdBatch, Head(sdQueue))} :
          /\ sdBatch' = BatchAfterGet(b, sdBatchSize)
          /\ sdTasks' = IF Len(b) < sdBatchSize THEN sdTasks ELSE StartSendTask(sdTasks, b)
    /\ UNCHANGED <<sdQsize, sdBatchSize, sdCancelled, sdListener, sdHandler, sdPending, sdCreated,
                   sdPuts, sdSender, sdServer>>

\* sender: move_on_after(batch_timeout) expires on a batch that is not empty (an
\* empty one starts no task and the loop begins again)
ShutdownBatchTimeout ==
    /\ ~sdCancelled
    /\ sdSender = "get"
    /\ sdBatch # <<>>
    /\ sdTasks' = StartSendTask(sdTasks, sdBatch)
    /\ sdBatch' = <<>>
    /\ UNCHANGED <<sdQsize, sdBatchSize, sdCancelled, sdListener, sdHandler, sdPending, sdCreated,
                   sdPuts, sdQueue, sdSender, sdServer>>

\* send_batch returns (sent, or dropped after its retries)
ShutdownSendDone(k) ==
    /\ ~sdCancelled
    /\ sdTasks[k].state = "running"
    /\ sdTasks' = [sdTasks EXCEPT ![k].state = "done"]
    /\ UNCHANGED <<sdQsize, sdBatchSize, sdCancelled, sdListener, sdHandler, sdPending, sdCreated,
                   sdPuts, sdQueue, sdSender, sdBatch, sdServer>>

\* the scope server() runs in is cancelled
Shutdown ==
    /\ ~sdCancelled
    /\ sdCancelled' = TRUE
    /\ UNCHANGED <<sdQsize, sdBatchSize, sdListener, sdHandler, sdPending, sdCreated, sdPuts,
                   sdQueue, sdSender, sdBatch, sdTasks, sdServer>>

\* serve_tcp: accept raises trio.Cancelled
ListenerCancelled ==
    /\ sdCancelled
    /\ sdListener = "serving"
    /\ sdListener' = "cancelled"
    /\ UNCHANGED <<sdQsize, sdBatchSize, sdCancelled, sdHandler, sdPending, sdCreated, sdPuts,
                   sdQueue, sdSender, sdBatch, sdTasks, sdServer>>

\* handle_connection: receive_some or q.put raises trio.Cancelled, which no except
\* clause catches; the events not yet put are lost with the frame
HandlerCancelled(c) ==
    /\ sdCancelled
    /\ sdHandler[c] \in {"recv", "put"}
    /\ sdHandler' = [sdHandler EXCEPT ![c] = "cancelled"]
    /\ sdPending' = [sdPending EXCEPT ![c] = 0]
    /\ UNCHANGED <<sdQsize, sdBatchSize, sdCancelled, sdListener, sdCreated, sdPuts, sdQueue,
                   sdSender, sdBatch, sdTasks, sdServer>>

\* sender: q.get raises trio.Cancelled; the local batch is lost with the frame and
\* the nursery waits for the send tasks
SenderCancelled ==
    /\ sdCancelled
    /\ sdSender = "get"
    /\ sdSender' = "cancelled"
    /\ sdBatch' = <<>>
    /\ UNCHANGED <<sdQsize, sdBatchSize, sdCancelled, sdListener, sdHandler, sdPending, sdCreated,
                   sdPuts, sdQueue, sdTasks, sdServer>>

\* send_batch: insert_all raises trio.Cancelled, which is neither retried nor
\* caught by except Exception
SendTaskCancelled(k) ==
    /\ sdCancelled
    /\ sdTasks[k].state = "running"
    /\ sdTasks' = [sdTasks EXCEPT ![k].state = "cancelled"]
    /\ UNCHANGED <<sdQsize, sdBatchSize, sdCancelled, sdListener, sdHandler, sdPending, sdCreated,
                   sdPuts, sdQueue, sdSender, sdBatch, sdServer>>

\* sender: its nursery has no running child left
SenderExit ==
    /\ sdSender = "cancelled"
    /\ \A k \in 1..Len(sdTasks) : sdTasks[k].state # "running"
    /\ sdSender' = "exit"
    /\ UNCHANGED <<sdQsize, sdBatchSize, sdCancelled, sdListener, sdHandler, sdPending, sdCreated,
                   sdPuts, sdQueue, sdBatch, sdTasks, sdServer>>

\* server: its nursery has no running child left (serve_tcp returns once its
\* handlers have)
ServerReturn ==
    /\ sdServer = "running"
    /\ sdListener = "cancelled"
    /\ \A c \in Connections : sdHandler[c] \notin {"recv", "put"}
    /\ sdSender = "exit"
    /\ sdServer' = "returned"
    /\ UNCHANGED <<sdQsize, sdBatchSize, sdCancelled, sdListener, sdHandler, sdPending, sdCreated,
                   sdPuts, sdQueue, sdSender, sdBatch, sdTasks>>

\* server(..., qsize=..., batch_size=...) after task_status.started()
ShutdownInit ==
    /\ sdQsize \in QueueSizes
    /\ sdBatchSize \in {SenderBatchSize(arg) : arg \in BatchSizeArgs}
    /\ sdCancelled = FALSE
    /\ sdListener = "serving"
    /\ sdHandler = [c \in Connections |-> "none"]
    /\ sdPending = [c \in Connections |-> 0]
    /\ sdCreated = 0
    /\ sdPuts = 0
    /\ sdQueue = <<>>
    /\ sdSender = "get"
    /\ sdBatch = <<>>
    /\ sdTasks = <<>>
    /\ sdServer = "running"

(***************************************************************************)
(* The ways handle_connection ends (server.py:139-162).  The bytes and the  *)
(* LineReceiver are reduced to what decides the path: whether a read ends    *)
(* the stream, breaks it or fails otherwise, whether the buffer outgrows     *)
(* max_line_size, and whether bytes are left in the buffer at the end.  An   *)
(* exception that leaves a handler leaves the nursery of serve_tcp and of    *)
(* server() with it, and cancels every task in them.                         *)
(***************************************************************************)
\* what await stream.receive_some(recv_size) comes to
ReadResults == {"data", "eof", "BrokenStreamError", "ClosedStreamError"}

\* the exceptions that derive from Exception
StreamExceptionClasses ==
    {"BufferTooLargeError", "TruncatedLineError", "BrokenStreamError", "ClosedStreamError"}

\* how handle_connection leaves its try statement
HandlerEnd(emitted, exc) == [logs |-> emitted, escaped |-> exc]

\* (faulty variant: TruncatedLineError is not caught)
handler_except_clauses_without_truncated(exc) ==
    IF exc = None THEN HandlerEnd(<<>>, None)
    ELSE IF exc[1] = "BufferTooLargeError" THEN HandlerEnd(<<"debug">>, None)
    ELSE HandlerEnd(<<>>, exc)
\* the except clauses of handle_connection: BufferTooLargeError and
\* TruncatedLineError are logged at debug, any other Exception by logger.exception,
\* and what is not an Exception goes on to the caller; exc = None is the break
handler_except_clauses(exc) ==
    IF exc = None THEN HandlerEnd(<<>>, None)
    ELSE IF exc[1] = "BufferTooLargeError" THEN HandlerEnd(<<"debug">>, None)
    ELSE IF exc[1] = "TruncatedLineError" THEN HandlerEnd(<<"debug">>, None)
    ELSE IF exc[1] \in StreamExceptionClasses THEN HandlerEnd(<<"exception">>, None)
    ELSE HandlerEnd(<<>>, exc)

\* lr.close(): TruncatedLineError when bytes are left in the buffer
lr_close(leftover) == IF leftover THEN Some("TruncatedLineError") ELSE None

VARIABLES
    hxQsize,     \* the capacity of the queue
    hxHandler,   \* per connection: "none" (not accepted), "recv", "put", "aclose" (in
                 \* stream.aclose() under move_on_after(cleanup_timeout)), "exit",
                 \* "cancelled"
    hxLeftover,  \* per connection: whether bytes without a newline are in the buffer
    hxPending,   \* per connection: the events of the last receive_data not yet put
    hxPath,      \* per connection: the read result or exception that ended the loop
    hxLogs,      \* per connection: what the except clauses logged
    hxEscaped,   \* per connection: the exception that left handle_connection
    hxAclose,    \* per connection: the calls of stream.aclose()
    hxCreated,   \* the number of records parsed so far
    hxQueue,     \* the queue: <<connection, record>> pairs, oldest first
    hxGot,       \* what the sender took
    hxServing    \* whether the listener and the sender still run

hxVars ==
    <<hxQsize, hxHandler, hxLeftover, hxPending, hxPath, hxLogs, hxEscaped, hxAclose,
      hxCreated, hxQueue, hxGot, hxServing>>

\* serve_tcp accepts a connection and starts handle_connection for it
ExitAccept(c) ==
    /\ hxServing
    /\ hxHandler[c] = "none"
    /\ hxHandler' = [hxHandler EXCEPT ![c] = "recv"]
    /\ UNCHANGED <<hxQsize, hxLeftover, hxPending, hxPath, hxLogs, hxEscaped, hxAclose,
                   hxCreated, hxQueue, hxGot, hxServing>>

\* handle_connection: receive_some returned data, receive_data returned n events and
\* left bytes in the buffer or not; the loop goes on
ExitReceive(c) ==
    /\ hxServing
    /\ hxHandler[c] = "recv"
    /\ \E n \in 0..MaxEventsPerRead, leftover \in BOOLEAN :
          /\ hxCreated + n <= MaxRecords
          /\ n = 0 => leftover # hxLeftover[c]
          /\ hxCreated' = hxCreated + n
          /\ hxPending' = [hxPending EXCEPT ![c] = [i \in 1..n |-> <<c, hxCreated + i>>]]
          /\ hxLeftover' = [hxLeftover EXCEPT ![c] = leftover]
          /\ hxHandler' = [hxHandler EXCEPT ![c] = IF n = 0 THEN "recv" ELSE "put"]
    /\ UNCHANGED <<hxQsize, hxPath, hxLogs, hxEscaped, hxAclose, hxQueue, hxGot, hxServing>>

\* handle_connection: await q.put(event)
ExitPut(c) ==
    /\ hxServing
    /\ hxHandler[c] = "put"
    /\ Len(hxQueue) < hxQsize
    /\ hxQueue' = Append(hxQueue, Head(hxPending[c]))
    /\ hxPending' = [hxPending EXCEPT ![c] = Tail(@)]
    /\ hxHandler' = [hxHandler EXCEPT ![c] = IF Tail(hxPending[c]) = <<>> THEN "recv" ELSE "put"]
    /\ UNCHANGED <<hxQsize, hxLeftover, hxPath, hxLogs, hxEscaped, hxAclose, hxCreated, hxGot,
                   hxServing>>

\* handle_connection: the pass of the loop that ends it.  A read that fails with
\* BrokenStreamError counts as b""; on b"" receive_data returns nothing and
\* lr.close() follows; a read of data can make receive_data raise
\* BufferTooLargeError; any other failure of the read is raised as it is.  Then the
\* except clauses, then the finally clause enters stream.aclose().
ExitLoopEnds(c) ==
    /\ hxServing
    /\ hxHandler[c] = "recv"
    /\ \E read \in ReadResults :
       \E exc \in {IF read = "data" THEN Some("BufferTooLargeError")
                   ELSE IF read \in {"eof", "BrokenStreamError"} THEN lr_close(hxLeftover[c])
                   ELSE Some(read)} :
       \E end \in {handler_except_clauses(exc)} :
          /\ hxPath' = [hxPath EXCEPT ![c] = IF exc = None THEN read ELSE exc[1]]
          /\ hxLogs' = [hxLogs EXCEPT ![c] = end.logs]
          /\ hxEscaped' = [hxEscaped EXCEPT ![c] = end.escaped]
    /\ hxAclose' = [hxAclose EXCEPT ![c] = @ + 1]
    /\ hxHandler' = [hxHandler EXCEPT ![c] = "aclose"]
    /\ UNCHANGED <<hxQsize, hxLeftover, hxPending, hxCreated, hxQueue, hxGot, hxServing>>

\* handle_connection: stream.aclose() returns, or cleanup_timeout expires and
\* move_on_after leaves it; the handler is over, and an exception that was not
\* caught reaches the nurseries
ExitAcloseOver(c) ==
    /\ hxHandler[c] = "aclose"
    /\ hxHandler' =
          IF hxEscaped[c] = None THEN [hxHandler EXCEPT ![c] = "exit"]
          ELSE [d \in Connections |->
                   IF d = c THEN "exit"
                   ELSE IF hxHandler[d] \in {"recv", "put", "aclose"} THEN "cancelled"
                   ELSE hxHandler[d]]
    /\ hxServing' = (hxServing /\ hxEscaped[c] = None)
    /\ UNCHANGED <<hxQsize, hxLeftover, hxPending, hxPath, hxLogs, hxEscaped, hxAclose,
                   hxCreated, hxQueue, hxGot>>

\* sender: batch.append(await q.get())
ExitGet ==
    /\ hxServing
    /\ hxQueue # <<>>
    /\ hxGot' = Append(hxGot, Head(hxQueue))
    /\ hxQueue' = Tail(hxQueue)
    /\ UNCHANGED <<hxQsize, hxHandler, hxLeftover, hxPending, hxPath, hxLogs, hxEscaped,
                   hxAclose, hxCreated, hxServing>>

\* server() listening, no connection accepted yet
ExitInit ==
    /\ hxQsize \in QueueSizes
    /\ hxHandler = [c \in Connections |-> "none"]
    /\ hxLeftover = [c \in Connections |-> FALSE]
    /\ hxPending = [c \in Connections |-> <<>>]
    /\ hxPath = [c \in Connections |-> "none"]
    /\ hxLogs = [c \in Connections |-> <<>>]
    /\ hxEscaped = [c \in Connections |-> None]
    /\ hxAclose = [c \in Connections |-> 0]
    /\ hxCreated = 0
    /\ hxQueue = <<>>
    /\ hxGot = <<>>
    /\ hxServing = TRUE

(***************************************************************************)
(* The sender and its send tasks side by side (server.py:165-263): the       *)
(* composer loop of sender() and, in the same nursery, one send_batch per    *)
(* batch, each with its attempts under trio.fail_after(api_timeout) and its  *)
(* retry sleeps.  Records are numbered as they arrive and fall on one day.   *)
(***************************************************************************)
\* the records that arrive in a run, and the retry_max_attempts send_batch is given
StallRecords == {1, 2, 3}
StallAttemptsArgs == {Some(1), Some(3)}

\* what one attempt can raise, trio.Cancelled apart
StallFailures == {exc \in AttemptFailures : exc.type # "Cancelled"}

\* a send task as nursery.start_soon starts it
NewSendTask(b) ==
    [batch |-> b, state |-> "attempting", attempt_number |-> 1, calls |-> 0, slept |-> <<>>,
     result |-> "none"]

\* (faulty variant: the composer goes on only when no send task is under way, as it
\* would if it awaited send_batch)
ComposerAwaitsSendTasks(tasks) == \A k \in 1..Len(tasks) : tasks[k].state = "done"
\* whether the composer loop of sender() runs: nursery.start_soon returns at once, so
\* it does whatever the send tasks are doing
ComposerRuns(tasks) == TRUE

VARIABLES
    stQsize,        \* the capacity of the queue
    stBatchSize,    \* sender's batch_size after its default
    stMaxAttempts,  \* send_batch's retry_max_attempts after its default
    stMaxWait,      \* send_batch's retry_max_wait after its default
    stArrived,      \* the number of records put on the queue so far
    stQueue,        \* the queue
    stBatch,        \* sender's batch of the open window
    stTasks         \* the send tasks started, in the order they were started

stVars == <<stQsize, stBatchSize, stMaxAttempts, stMaxWait, stArrived, stQueue, stBatch, stTasks>>

\* (faulty variant: the put does not wait for room in the queue)
StallPutWithoutWaiting ==
    /\ stArrived + 1 \in StallRecords
    /\ stArrived' = stArrived + 1
    /\ stQueue' = Append(stQueue, stArrived + 1)
    /\ UNCHANGED <<stQsize, stBatchSize, stMaxAttempts, stMaxWait, stBatch, stTasks>>
\* a handler puts a record on the queue: await q.put(...) returns when there is room
StallPut ==
    /\ stArrived + 1 \in StallRecords
    /\ Len(stQueue) < stQsize
    /\ stArrived' = stArrived + 1
    /\ stQueue' = Append(stQueue, stArrived + 1)
    /\ UNCHANGED <<stQsize, stBatchSize, stMaxAttempts, stMaxWait, stBatch, stTasks>>

\* sender: batch.append(await q.get()); a full batch is handed to a send task
StallGet ==
    /\ ComposerRuns(stTasks)
    /\ stQueue # <<>>
    /\ stQueue' = Tail(stQueue)
    /\ \E b \in {Append(stBatch, Head(stQueue))} :
          IF Len(b) < stBatchSize
          THEN stBatch' = b /\ UNCHANGED stTasks
          ELSE stBatch' = <<>> /\ stTasks' = Append(stTasks, NewSendTask(b))
    /\ UNCHANGED <<stQsize, stBatchSize, stMaxAttempts, stMaxWait, stArrived>>

\* sender: move_on_after(batch_timeout) expires on a batch that is not empty
StallBatchTimeout ==
    /\ ComposerRuns(stTasks)
    /\ stBatch # <<>>
    /\ stTasks' = Append(stTasks, NewSendTask(stBatch))
    /\ stBatch' = <<>>
    /\ UNCHANGED <<stQsize, stBatchSize, stMaxAttempts, stMaxWait, stArrived, stQueue>>

\* send task k: bq.insert_all returns within api_timeout
StallAttemptSucceeds(k) ==
    /\ k \in 1..Len(stTasks)
    /\ stTasks[k].state = "attempting"
    /\ stTasks' = [stTasks EXCEPT ![k].state = "done", ![k].calls = @ + 1,
                                  ![k].result = "sent"]
    /\ UNCHANGED <<stQsize, stBatchSize, stMaxAttempts, stMaxWait, stArrived, stQueue, stBatch>>

\* send task k: the attempt raises exc (TooSlowError when api_timeout expires); the
\* task drops its batch, or sleeps before the next attempt
StallAttemptFails(k) ==
    /\ k \in 1..Len(stTasks)
    /\ stTasks[k].state = "attempting"
    /\ \E exc \in StallFailures :
          stTasks' =
             IF \/ ~retry_if_exception_type(exc)
                \/ stop_after_attempt(stTasks[k].attempt_number, stMaxAttempts)
             THEN [stTasks EXCEPT ![k].state = "done", ![k].calls = @ + 1,
                                  ![k].result = "dropped"]
             ELSE [stTasks EXCEPT
                      ![k].state = "sleeping", ![k].calls = @ + 1,
                      ![k].attempt_number = @ + 1,
                      ![k].slept = Append(@, wait_exponential(stTasks[k].attempt_number,
                                                              DefaultRetryMultiplierX2,
                                                              stMaxWait))]
    /\ UNCHANGED <<stQsize, stBatchSize, stMaxAttempts, stMaxWait, stArrived, stQueue, stBatch>>

\* send task k: the retry's sleep is over
StallWake(k) ==
    /\ k \in 1..Len(stTasks)
    /\ stTasks[k].state = "sleeping"
    /\ stTasks' = [stTasks EXCEPT ![k].state = "attempting"]
    /\ UNCHANGED <<stQsize, stBatchSize, stMaxAttempts, stMaxWait, stArrived, stQueue, stBatch>>

\* server(..., qsize=..., batch_size=..., retry_max_attempts=..., retry_max_wait=1):
\* with the default multiplier the sleeps would be 1 s, 2 s, 4 s, ..., so that every
\* sleep after the first is cut to retry_max_wait
StallInit ==
    /\ stQsize \in QueueSizes
    /\ stBatchSize \in {SenderBatchSize(arg) : arg \in BatchSizeArgs}
    /\ stMaxAttempts \in {SendRetryMaxAttempts(a) : a \in StallAttemptsArgs}
    /\ stMaxWait = SendRetryMaxWait(Some(1))
    /\ stArrived = 0
    /\ stQueue = <<>>
    /\ stBatch = <<>>
    /\ stTasks = <<>>

(***************************************************************************)
(* FlowControlQueue (linehaul/_queue.py), the queue of the asyncio         *)
(* revision: an asyncio.Queue that pauses and resumes its transport        *)
(***************************************************************************)
DefaultMaxsize == 65536

\* the maxsize arguments tried; None is the default of __init__
MaxsizeArgs == {None, Some(0), Some(1), Some(2)}

\* FlowControlQueueMixin.__init__: maxsize=2 ** 16
InitMaxsize(arg) == IF arg = None THEN DefaultMaxsize ELSE arg[1]

\* self.full() of asyncio.Queue: never full when maxsize <= 0
full(items, maxsize) == IF maxsize <= 0 THEN FALSE ELSE Len(items) >= maxsize

\* (faulty variant: the transport is paused at every put into a full queue)
should_pause_whenever_full(paused, items, maxsize) == full(items, maxsize)
\* put_nowait: if not self._paused and self.full()
should_pause(paused, items, maxsize) == ~paused /\ full(items, maxsize)

\* _maybe_resume_transport: if self._paused and self.qsize() <= self.maxsize
should_resume(paused, items, maxsize) == paused /\ Len(items) <= maxsize

\* FlowControlQueueMixin.put_nowait(item): what the queue is afterwards and the call
\* made on the transport
put_nowait(items, paused, maxsize, item) ==
    [items  |-> Append(items, item),
     paused |-> paused \/ should_pause(paused, items, maxsize),
     call   |-> IF should_pause(paused, items, maxsize)
                THEN Some("pause_reading") ELSE None]

\* FlowControlQueueMixin.get_nowait(): asyncio.Queue.get_nowait raises QueueEmpty on an
\* empty queue, and the finally clause runs _maybe_resume_transport either way
get_nowait(items, paused, maxsize) ==
    LET Left(rest) ==
            [result |-> IF items = <<>> THEN "QueueEmpty" ELSE "returned",
             item   |-> IF items = <<>> THEN None ELSE Some(Head(items)),
             items  |-> rest,
             paused |-> paused /\ ~should_resume(paused, rest, maxsize),
             call   |-> IF should_resume(paused, rest, maxsize)
                        THEN Some("resume_reading") ELSE None]
    IN  Left(IF items = <<>> THEN items ELSE Tail(items))

VARIABLES
    fqArg,        \* the maxsize argument given to FlowControlQueue
    fqMaxsize,    \* self.maxsize
    fqItems,      \* the items in the queue, oldest first
    fqPaused,     \* self._paused
    fqTransport,  \* the calls made on the transport, in order
    fqCalls,      \* how many put_nowait and get_nowait calls were made
    fqLast        \* the last call: its name, its outcome, the item put or got

fqVars == <<fqArg, fqMaxsize, fqItems, fqPaused, fqTransport, fqCalls, fqLast>>

\* queue.put_nowait(item); the items are numbered by the call that put them
FQPutNowait ==
    /\ fqCalls < MaxQueueCalls
    /\ fqCalls' = fqCalls + 1
    /\ LET After(r) ==
              /\ fqItems' = r.items
              /\ fqPaused' = r.paused
              /\ fqTransport' = IF r.call = None THEN fqTransport
                                ELSE Append(fqTransport, r.call[1])
              /\ fqLast' = [op |-> "put_nowait", result |-> "returned",
                            item |-> Some(fqCalls + 1)]
       IN  After(put_nowait(fqItems, fqPaused, fqMaxsize, fqCalls + 1))
    /\ UNCHANGED <<fqArg, fqMaxsize>>

\* queue.get_nowait()
FQGetNowait ==
    /\ fqCalls < MaxQueueCalls
    /\ fqCalls' = fqCalls + 1
    /\ LET After(r) ==
              /\ fqItems' = r.items
              /\ fqPaused' = r.paused
              /\ fqTransport' = IF r.call = None THEN fqTransport
                                ELSE Append(fqTransport, r.call[1])
              /\ fqLast' = [op |-> "get_nowait", result |-> r.result, item |-> r.item]
       IN  After(get_nowait(fqItems, fqPaused, fqMaxsize))
    /\ UNCHANGED <<fqArg, fqMaxsize>>

\* FlowControlQueue(transport, maxsize=arg)
FQInit ==
    /\ fqArg \in MaxsizeArgs
    /\ fqMaxsize = InitMaxsize(fqArg)
    /\ fqItems = <<>>
    /\ fqPaused = FALSE
    /\ fqTransport = <<>>
    /\ fqCalls = 0
    /\ fqLast = [op |-> "none", result |-> "none", item |-> None]

(***************************************************************************)
(* The sender of the asyncio revision (linehaul/core.py): one protocol     *)
(* with its CloseableFlowControlQueue, the crontab that starts send(), and *)
(* the send() coroutine                                                    *)
(***************************************************************************)
BATCH_SIZE == 500

\* the rows a connection can produce, and the days their timestamps fall on
DrainRowIds == {1, 2, 3}
DrainDates == {1, 2}

\* itertools.groupby(sorted(all_rows, key=_extract_row_date), _extract_row_date): the
\* rows of each day, the days in ascending order, the rows of a day in arrival order
RECURSIVE GroupsFrom(_, _)
GroupsFrom(date, all_rows) ==
    IF \A d \in DrainDates : d < date THEN <<>>
    ELSE LET OfDay(rows) == IF rows = <<>> THEN <<>> ELSE <<rows>>
         IN  OfDay(SelectSeq(all_rows, LAMBDA row : row.date = date))
                \o GroupsFrom(date + 1, all_rows)

\* CloseableQueueMixin.put and put_nowait: raise QueueClosed on a closed queue, else
\* the put of the FlowControlQueue
closeable_put_nowait(closed, items, item) ==
    IF closed
    THEN [result |-> "QueueClosed", items |-> items]
    ELSE [result |-> "returned",
          items  |-> put_nowait(items, FALSE, DefaultMaxsize, item).items]

VARIABLES
    dqItems,      \* the rows in protocol.queue
    dqClosed,     \* queue._closed
    dqEnsurer,    \* the crontab of the protocol: "running" or "stopped"
    dqSender,     \* protocol.sender: "none", or where send() is: "test" (the while
                  \* condition), "get" (awaiting queue.get()), "insert" (the insert_all
                  \* loop), "returned", "raised"
    dqAllRows,    \* all_rows of send()
    dqGroups,     \* the groups of all_rows not yet given to insert_all
    dqInserted,   \* the row lists given to insert_all, in order
    dqPuts,       \* how many rows were offered to the queue
    dqAtClose,    \* the rows that were in the queue when it was closed
    dqLast        \* the last put: the method called, its row, its outcome

dqVars == <<dqItems, dqClosed, dqEnsurer, dqSender, dqAllRows, dqGroups, dqInserted,
            dqPuts, dqAtClose, dqLast>>

\* message_received: self.queue.put_nowait(row); also the coroutine queue.put(row),
\* which makes the same test and, the queue being far from full, the same put
DrainPut ==
    \E method \in {"put", "put_nowait"}, date \in DrainDates :
        /\ dqPuts < Cardinality(DrainRowIds)
        /\ dqPuts' = dqPuts + 1
        /\ LET After(row, r) ==
                  /\ dqItems' = r.items
                  /\ dqLast' = [op |-> method, row |-> Some(row), result |-> r.result]
           IN  After([id |-> dqPuts + 1, date |-> date],
                     closeable_put_nowait(dqClosed, dqItems,
                                          [id |-> dqPuts + 1, date |-> date]))
        /\ UNCHANGED <<dqClosed, dqEnsurer, dqSender, dqAllRows, dqGroups, dqInserted,
                       dqAtClose>>

\* a tick of the crontab: _ensure_sender starts send() when there is no sender or the
\* sender is done
EnsureSender ==
    /\ dqEnsurer = "running"
    /\ dqSender \in {"none", "returned", "raised"}
    /\ dqSender' = "test"
    /\ dqAllRows' = <<>>
    /\ dqGroups' = <<>>
    /\ UNCHANGED <<dqItems, dqClosed, dqEnsurer, dqInserted, dqPuts, dqAtClose, dqLast>>

\* connection_lost: self.queue.close(); self.ensurer.stop()
ConnectionLost ==
    /\ ~dqClosed
    /\ dqClosed' = TRUE
    /\ dqEnsurer' = "stopped"
    /\ dqAtClose' = dqItems
    /\ UNCHANGED <<dqItems, dqSender, dqAllRows, dqGroups, dqInserted, dqPuts, dqLast>>

\* send(): while not queue.closed or not queue.empty()
SendTest ==
    /\ dqSender = "test"
    /\ IF ~dqClosed \/ dqItems # <<>>
       THEN dqSender' = "get" /\ dqAllRows' = <<>>
       ELSE dqSender' = "returned" /\ UNCHANGED dqAllRows
    /\ UNCHANGED <<dqItems, dqClosed, dqEnsurer, dqGroups, dqInserted, dqPuts, dqAtClose,
                   dqLast>>

\* send(): row = await asyncio.wait_for(queue.get(), ...) returns a row;
\* all_rows.append(row); the inner loop ends when all_rows has BATCH_SIZE rows.
\* queue.get() is asyncio.Queue.get: it waits while the queue is empty, whether the
\* queue is closed or not
SendGet ==
    /\ dqSender = "get"
    /\ dqItems # <<>>
    /\ LET After(r) ==
              /\ dqItems' = r.items
              /\ dqAllRows' = Append(dqAllRows, r.item[1])
              /\ IF Len(dqAllRows) + 1 < BATCH_SIZE
                 THEN UNCHANGED <<dqSender, dqGroups>>
                 ELSE /\ dqSender' = "insert"
                      /\ dqGroups' = GroupsFrom(1, Append(dqAllRows, r.item[1]))
       IN  After(get_nowait(dqItems, FALSE, DefaultMaxsize))
    /\ UNCHANGED <<dqClosed, dqEnsurer, dqInserted, dqPuts, dqAtClose, dqLast>>

\* send(): asyncio.TimeoutError after MAX_WAIT, the timeout given to wait_for when
\* all_rows is not empty (timeout=None otherwise): break, and group the rows
SendTimeout ==
    /\ dqSender = "get"
    /\ dqItems = <<>>
    /\ dqAllRows # <<>>
    /\ dqSender' = "insert"
    /\ dqGroups' = GroupsFrom(1, dqAllRows)
    /\ UNCHANGED <<dqItems, dqClosed, dqEnsurer, dqAllRows, dqInserted, dqPuts, dqAtClose,
                   dqLast>>

\* send(): await bq.insert_all(rows, ...) returns for the next group
SendInsert ==
    /\ dqSender = "insert"
    /\ dqGroups # <<>>
    /\ dqInserted' = Append(dqInserted, Head(dqGroups))
    /\ dqGroups' = Tail(dqGroups)
    /\ UNCHANGED <<dqItems, dqClosed, dqEnsurer, dqSender, dqAllRows, dqPuts, dqAtClose,
                   dqLast>>

\* send(): insert_all raises (assert resp.status == 200); send() has no handler, the
\* future is done with the exception
SendInsertRaises ==
    /\ dqSender = "insert"
    /\ dqGroups # <<>>
    /\ dqInserted' = Append(dqInserted, Head(dqGroups))
    /\ dqSender' = "raised"
    /\ UNCHANGED <<dqItems, dqClosed, dqEnsurer, dqAllRows, dqGroups, dqPuts, dqAtClose,
                   dqLast>>

\* send(): the for loop over the groups is over, back to the while condition
SendLoop ==
    /\ dqSender = "insert"
    /\ dqGroups = <<>>
    /\ dqSender' = "test"
    /\ UNCHANGED <<dqItems, dqClosed, dqEnsurer, dqAllRows, dqGroups, dqInserted, dqPuts,
                   dqAtClose, dqLast>>

\* connection_made: self.queue = CloseableFlowControlQueue(transport), the crontab of
\* __init__ running, no sender yet
DrainInit ==
    /\ dqItems = <<>>
    /\ dqClosed = FALSE
    /\ dqEnsurer = "running"
    /\ dqSender = "none"
    /\ dqAllRows = <<>>
    /\ dqGroups = <<>>
    /\ dqInserted = <<>>
    /\ dqPuts = 0
    /\ dqAtClose = <<>>
    /\ dqLast = [op |-> "none", row |-> None, result |-> "none"]

(***************************************************************************)
(* The specifications.  Each one runs its own component and leaves the     *)
(* variables of the others at rest.                                        *)
(***************************************************************************)
vars == <<lrVars, serverVars, sendVars, uaVars, plVars, psVars, slVars, mgVars, cnVars, sdVars, hxVars, stVars, fqVars, dqVars>>

LRIdle ==
    /\ lr_arg = None
    /\ lr_max_line_size = InitMaxLineSize(None)
    /\ lr_buffer = <<>>
    /\ lr_searched = 0
    /\ lrState = "open"
    /\ lrStream = <<>>
    /\ lrLines = <<>>
    /\ lrLast = [op |-> "none", fresh |-> FALSE, again |-> FALSE, result |-> "none", returned |-> <<>>,
                 line |-> <<>>]

ServerIdle ==
    /\ qsize = 1
    /\ batch_size = 1
    /\ q = <<>>
    /\ hpc = [h \in Connections |-> "exit"]
    /\ hpending = [h \in Connections |-> <<>>]
    /\ created = 0
    /\ putCount = [id \in 1..MaxRecords |-> 0]
    /\ getCount = [id \in 1..MaxRecords |-> 0]
    /\ batch = <<>>
    /\ drawn = 0
    /\ lastWindow = <<>>
    /\ lastTasks = <<>>
    /\ issued = {}

SendIdle ==
    /\ retry_max_attempts = SendRetryMaxAttempts(None)
    /\ retry_max_wait = SendRetryMaxWait(None)
    /\ retry_multiplier_x2 = SendRetryMultiplierX2(None)
    /\ template_suffix = 0
    /\ send_rows = <<>>
    /\ sendState = "done"
    /\ attempt_number = 1
    /\ calls = 0
    /\ firstCall = None
    /\ lastCall = None
    /\ lastFailure = None
    /\ onlyTransient = TRUE
    /\ sleeps = <<>>
    /\ logs = <<>>
    /\ escaped = FALSE

UAIdle ==
    /\ uaParsers = USER_AGENT_PARSERS
    /\ uaText = <<>>
    /\ uaPc = "done"
    /\ uaOutcome = NotYet

PLIdle ==
    /\ plToken = None
    /\ plLine = <<>>
    /\ plPc = "put"
    /\ plOutcome = LineOutcome(None, <<>>, None, None)
    /\ plLines = <<>>
    /\ plQueue = <<>>

PSIdle ==
    /\ psParsers = <<>>
    /\ psRegistered = <<>>
    /\ psCounts = [p \in PSParserNames |-> 0]
    /\ psOptimizeEvery = 2
    /\ psOptimizeIn = 2
    /\ psCalls = MaxCalls
    /\ psInput = ""
    /\ psOutcome = [tag |-> "pending", value |-> "", logs |-> <<>>, hit |-> None]

SLIdle ==
    /\ slValue = None
    /\ slLine = <<>>
    /\ slPc = "done"
    /\ slOutcome = [tag |-> "pending"]

MigrateIdle ==
    /\ mgTable = None
    /\ mgDesired = <<>>
    /\ mgPc = "updated"
    /\ mgCurrent = None
    /\ mgValidation = None
    /\ mgUpdates = <<>>

ConnIdle ==
    /\ cnSkipped = <<NL>>
    /\ cnQsize = 1
    /\ cnMaxLineSize = DefaultMaxLineSize
    /\ cnStream = <<>>
    /\ cnBuffer = <<>>
    /\ cnSearched = 0
    /\ cnState = "closed"
    /\ cnHanded = <<>>
    /\ cnPending = <<>>
    /\ cnSuspended = FALSE
    /\ cnSuspensions = 0
    /\ cnQueue = <<>>
    /\ cnPut = <<>>
    /\ cnGot = <<>>

ShutdownIdle ==
    /\ sdQsize = 1
    /\ sdBatchSize = DefaultBatchSize
    /\ sdCancelled = TRUE
    /\ sdListener = "cancelled"
    /\ sdHandler = [c \in Connections |-> "none"]
    /\ sdPending = [c \in Connections |-> 0]
    /\ sdCreated = 0
    /\ sdPuts = 0
    /\ sdQueue = <<>>
    /\ sdSender = "exit"
    /\ sdBatch = <<>>
    /\ sdTasks = <<>>
    /\ sdServer = "returned"

ExitIdle ==
    /\ hxQsize = 1
    /\ hxHandler = [c \in Connections |-> "exit"]
    /\ hxLeftover = [c \in Connections |-> FALSE]
    /\ hxPending = [c \in Connections |-> <<>>]
    /\ hxPath = [c \in Connections |-> "none"]
    /\ hxLogs = [c \in Connections |-> <<>>]
    /\ hxEscaped = [c \in Connections |-> None]
    /\ hxAclose = [c \in Connections |-> 0]
    /\ hxCreated = 0
    /\ hxQueue = <<>>
    /\ hxGot = <<>>
    /\ hxServing = FALSE

StallIdle ==
    /\ stQsize = 1
    /\ stBatchSize = DefaultBatchSize
    /\ stMaxAttempts = DefaultRetryMaxAttempts
    /\ stMaxWait = DefaultRetryMaxWait
    /\ stArrived = Cardinality(StallRecords)
    /\ stQueue = <<>>
    /\ stBatch = <<>>
    /\ stTasks = <<>>

FQIdle ==
    /\ fqArg = None
    /\ fqMaxsize = DefaultMaxsize
    /\ fqItems = <<>>
    /\ fqPaused = FALSE
    /\ fqTransport = <<>>
    /\ fqCalls = 0
    /\ fqLast = [op |-> "none", result |-> "none", item |-> None]

DrainIdle ==
    /\ dqItems = <<>>
    /\ dqClosed = FALSE
    /\ dqEnsurer = "stopped"
    /\ dqSender = "none"
    /\ dqAllRows = <<>>
    /\ dqGroups = <<>>
    /\ dqInserted = <<>>
    /\ dqPuts = 0
    /\ dqAtClose = <<>>
    /\ dqLast = [op |-> "none", row |-> None, result |-> "none"]

LRNext ==
    \/ ReceiveChunk /\ UNCHANGED <<serverVars, sendVars, uaVars, plVars, psVars, slVars, mgVars, cnVars, sdVars, hxVars, stVars, fqVars, dqVars>>
    \/ ReceiveOversized /\ UNCHANGED <<serverVars, sendVars, uaVars, plVars, psVars, slVars, mgVars, cnVars, sdVars, hxVars, stVars, fqVars, dqVars>>
    \/ Close /\ UNCHANGED <<serverVars, sendVars, uaVars, plVars, psVars, slVars, mgVars, cnVars, sdVars, hxVars, stVars, fqVars, dqVars>>

InitLR == LRInit /\ ServerIdle /\ SendIdle /\ UAIdle /\ PLIdle /\ PSIdle /\ SLIdle /\ MigrateIdle /\ ConnIdle /\ ShutdownIdle /\ ExitIdle /\ StallIdle /\ FQIdle /\ DrainIdle

SpecLR == InitLR /\ [][LRNext]_vars

ServerNext ==
    \/ \E h \in Connections : Recv(h) /\ UNCHANGED <<lrVars, sendVars, uaVars, plVars, psVars, slVars, mgVars, cnVars, sdVars, hxVars, stVars, fqVars, dqVars>>
    \/ \E h \in Connections : Put(h) /\ UNCHANGED <<lrVars, sendVars, uaVars, plVars, psVars, slVars, mgVars, cnVars, sdVars, hxVars, stVars, fqVars, dqVars>>
    \/ \E h \in Connections : HandlerExit(h) /\ UNCHANGED <<lrVars, sendVars, uaVars, plVars, psVars, slVars, mgVars, cnVars, sdVars, hxVars, stVars, fqVars, dqVars>>
    \/ SenderGet /\ UNCHANGED <<lrVars, sendVars, uaVars, plVars, psVars, slVars, mgVars, cnVars, sdVars, hxVars, stVars, fqVars, dqVars>>
    \/ BatchTimeout /\ UNCHANGED <<lrVars, sendVars, uaVars, plVars, psVars, slVars, mgVars, cnVars, sdVars, hxVars, stVars, fqVars, dqVars>>

InitServer == ServerInit /\ LRIdle /\ SendIdle /\ UAIdle /\ PLIdle /\ PSIdle /\ SLIdle /\ MigrateIdle /\ ConnIdle /\ ShutdownIdle /\ ExitIdle /\ StallIdle /\ FQIdle /\ DrainIdle

SendNext ==
    \/ AttemptSucceeds /\ UNCHANGED <<lrVars, serverVars, uaVars, plVars, psVars, slVars, mgVars, cnVars, sdVars, hxVars, stVars, fqVars, dqVars>>
    \/ \E exc \in AttemptFailures : AttemptFails(exc) /\ UNCHANGED <<lrVars, serverVars, uaVars, plVars, psVars, slVars, mgVars, cnVars, sdVars, hxVars, stVars, fqVars, dqVars>>
    \/ Wake /\ UNCHANGED <<lrVars, serverVars, uaVars, plVars, psVars, slVars, mgVars, cnVars, sdVars, hxVars, stVars, fqVars, dqVars>>

InitSend == SendInit /\ LRIdle /\ ServerIdle /\ UAIdle /\ PLIdle /\ PSIdle /\ SLIdle /\ MigrateIdle /\ ConnIdle /\ ShutdownIdle /\ ExitIdle /\ StallIdle /\ FQIdle /\ DrainIdle

SpecServer == InitServer /\ [][ServerNext]_vars

SpecSend == InitSend /\ [][SendNext]_vars

UANext ==
    \/ UAParseNewStyle /\ UNCHANGED <<lrVars, serverVars, sendVars, plVars, psVars, slVars, mgVars, cnVars, sdVars, hxVars, stVars, fqVars, dqVars>>
    \/ UAParseLegacy /\ UNCHANGED <<lrVars, serverVars, sendVars, plVars, psVars, slVars, mgVars, cnVars, sdVars, hxVars, stVars, fqVars, dqVars>>

InitUA == UAInit /\ LRIdle /\ ServerIdle /\ SendIdle /\ PLIdle /\ PSIdle /\ SLIdle /\ MigrateIdle /\ ConnIdle /\ ShutdownIdle /\ ExitIdle /\ StallIdle /\ FQIdle /\ DrainIdle

SpecUA == InitUA /\ [][UANext]_vars

PLNext ==
    \/ PLCallback /\ UNCHANGED <<lrVars, serverVars, sendVars, uaVars, psVars, slVars, mgVars, cnVars, sdVars, hxVars, stVars, fqVars, dqVars>>
    \/ PLPut /\ UNCHANGED <<lrVars, serverVars, sendVars, uaVars, psVars, slVars, mgVars, cnVars, sdVars, hxVars, stVars, fqVars, dqVars>>

InitPL == PLInit /\ LRIdle /\ ServerIdle /\ SendIdle /\ UAIdle /\ PSIdle /\ SLIdle /\ MigrateIdle /\ ConnIdle /\ ShutdownIdle /\ ExitIdle /\ StallIdle /\ FQIdle /\ DrainIdle

SpecPL == InitPL /\ [][PLNext]_vars

PSNext ==
    \/ PSRegister /\ UNCHANGED <<lrVars, serverVars, sendVars, uaVars, plVars, slVars, mgVars, cnVars, sdVars, hxVars, stVars, fqVars, dqVars>>
    \/ PSCall /\ UNCHANGED <<lrVars, serverVars, sendVars, uaVars, plVars, slVars, mgVars, cnVars, sdVars, hxVars, stVars, fqVars, dqVars>>

InitPS == PSInit /\ LRIdle /\ ServerIdle /\ SendIdle /\ UAIdle /\ PLIdle /\ SLIdle /\ MigrateIdle /\ ConnIdle /\ ShutdownIdle /\ ExitIdle /\ StallIdle /\ FQIdle /\ DrainIdle

SpecPS == InitPS /\ [][PSNext]_vars

SLNext ==
    \/ SLUnparse /\ UNCHANGED <<lrVars, serverVars, sendVars, uaVars, plVars, psVars, mgVars, cnVars, sdVars, hxVars, stVars, fqVars, dqVars>>
    \/ SLParse /\ UNCHANGED <<lrVars, serverVars, sendVars, uaVars, plVars, psVars, mgVars, cnVars, sdVars, hxVars, stVars, fqVars, dqVars>>

InitSL == SLInit /\ LRIdle /\ ServerIdle /\ SendIdle /\ UAIdle /\ PLIdle /\ PSIdle /\ MigrateIdle /\ ConnIdle /\ ShutdownIdle /\ ExitIdle /\ StallIdle /\ FQIdle /\ DrainIdle

SpecSL == InitSL /\ [][SLNext]_vars

MigrateNext ==
    \/ MigrateFetch /\ UNCHANGED <<lrVars, serverVars, sendVars, uaVars, plVars, psVars, slVars, cnVars, sdVars, hxVars, stVars, fqVars, dqVars>>
    \/ MigrateFetchFails /\ UNCHANGED <<lrVars, serverVars, sendVars, uaVars, plVars, psVars, slVars, cnVars, sdVars, hxVars, stVars, fqVars, dqVars>>
    \/ MigrateValidateAndUpdate /\ UNCHANGED <<lrVars, serverVars, sendVars, uaVars, plVars, psVars, slVars, cnVars, sdVars, hxVars, stVars, fqVars, dqVars>>

InitMigrate == MigrateInit /\ LRIdle /\ ServerIdle /\ SendIdle /\ UAIdle /\ PLIdle /\ PSIdle /\ SLIdle /\ ConnIdle /\ ShutdownIdle /\ ExitIdle /\ StallIdle /\ FQIdle /\ DrainIdle

SpecMigrate == InitMigrate /\ [][MigrateNext]_vars

ConnNext ==
    \/ ConnReceive /\ UNCHANGED <<lrVars, serverVars, sendVars, uaVars, plVars, psVars, slVars, mgVars, sdVars, hxVars, stVars, fqVars, dqVars>>
    \/ ConnPut /\ UNCHANGED <<lrVars, serverVars, sendVars, uaVars, plVars, psVars, slVars, mgVars, sdVars, hxVars, stVars, fqVars, dqVars>>
    \/ ConnGet /\ UNCHANGED <<lrVars, serverVars, sendVars, uaVars, plVars, psVars, slVars, mgVars, sdVars, hxVars, stVars, fqVars, dqVars>>

InitConn == ConnInit /\ LRIdle /\ ServerIdle /\ SendIdle /\ UAIdle /\ PLIdle /\ PSIdle /\ SLIdle /\ MigrateIdle /\ ShutdownIdle /\ ExitIdle /\ StallIdle /\ FQIdle /\ DrainIdle

SpecConn == InitConn /\ [][ConnNext]_vars

ShutdownNext ==
    \/ (\E c \in Connections : ShutdownAccept(c)) /\ UNCHANGED <<lrVars, serverVars, sendVars, uaVars, plVars, psVars, slVars, mgVars, cnVars, hxVars, stVars, fqVars, dqVars>>
    \/ (\E c \in Connections : ShutdownReceive(c)) /\ UNCHANGED <<lrVars, serverVars, sendVars, uaVars, plVars, psVars, slVars, mgVars, cnVars, hxVars, stVars, fqVars, dqVars>>
    \/ (\E c \in Connections : ShutdownEndOfStream(c)) /\ UNCHANGED <<lrVars, serverVars, sendVars, uaVars, plVars, psVars, slVars, mgVars, cnVars, hxVars, stVars, fqVars, dqVars>>
    \/ (\E c \in Connections : ShutdownPut(c)) /\ UNCHANGED <<lrVars, serverVars, sendVars, uaVars, plVars, psVars, slVars, mgVars, cnVars, hxVars, stVars, fqVars, dqVars>>
    \/ (ShutdownGet) /\ UNCHANGED <<lrVars, serverVars, sendVars, uaVars, plVars, psVars, slVars, mgVars, cnVars, hxVars, stVars, fqVars, dqVars>>
    \/ (ShutdownBatchTimeout) /\ UNCHANGED <<lrVars, serverVars, sendVars, uaVars, plVars, psVars, slVars, mgVars, cnVars, hxVars, stVars, fqVars, dqVars>>
    \/ (\E k \in 1..Len(sdTasks) : ShutdownSendDone(k)) /\ UNCHANGED <<lrVars, serverVars, sendVars, uaVars, plVars, psVars, slVars, mgVars, cnVars, hxVars, stVars, fqVars, dqVars>>
    \/ (Shutdown) /\ UNCHANGED <<lrVars, serverVars, sendVars, uaVars, plVars, psVars, slVars, mgVars, cnVars, hxVars, stVars, fqVars, dqVars>>
    \/ (ListenerCancelled) /\ UNCHANGED <<lrVars, serverVars, sendVars, uaVars, plVars, psVars, slVars, mgVars, cnVars, hxVars, stVars, fqVars, dqVars>>
    \/ (\E c \in Connections : HandlerCancelled(c)) /\ UNCHANGED <<lrVars, serverVars, sendVars, uaVars, plVars, psVars, slVars, mgVars, cnVars, hxVars, stVars, fqVars, dqVars>>
    \/ (SenderCancelled) /\ UNCHANGED <<lrVars, serverVars, sendVars, uaVars, plVars, psVars, slVars, mgVars, cnVars, hxVars, stVars, fqVars, dqVars>>
    \/ (\E k \in 1..Len(sdTasks) : SendTaskCancelled(k)) /\ UNCHANGED <<lrVars, serverVars, sendVars, uaVars, plVars, psVars, slVars, mgVars, cnVars, hxVars, stVars, fqVars, dqVars>>
    \/ (SenderExit) /\ UNCHANGED <<lrVars, serverVars, sendVars, uaVars, plVars, psVars, slVars, mgVars, cnVars, hxVars, stVars, fqVars, dqVars>>
    \/ (ServerReturn) /\ UNCHANGED <<lrVars, serverVars, sendVars, uaVars, plVars, psVars, slVars, mgVars, cnVars, hxVars, stVars, fqVars, dqVars>>

InitShutdown == ShutdownInit /\ LRIdle /\ ServerIdle /\ SendIdle /\ UAIdle /\ PLIdle /\ PSIdle /\ SLIdle /\ MigrateIdle /\ ConnIdle /\ ExitIdle /\ StallIdle /\ FQIdle /\ DrainIdle

SpecShutdown == InitShutdown /\ [][ShutdownNext]_vars

ExitNext ==
    \/ (\E c \in Connections : ExitAccept(c)) /\ UNCHANGED <<lrVars, serverVars, sendVars, uaVars, plVars, psVars, slVars, mgVars, cnVars, sdVars, stVars, fqVars, dqVars>>
    \/ (\E c \in Connections : ExitReceive(c)) /\ UNCHANGED <<lrVars, serverVars, sendVars, uaVars, plVars, psVars, slVars, mgVars, cnVars, sdVars, stVars, fqVars, dqVars>>
    \/ (\E c \in Connections : ExitPut(c)) /\ UNCHANGED <<lrVars, serverVars, sendVars, uaVars, plVars, psVars, slVars, mgVars, cnVars, sdVars, stVars, fqVars, dqVars>>
    \/ (\E c \in Connections : ExitLoopEnds(c)) /\ UNCHANGED <<lrVars, serverVars, sendVars, uaVars, plVars, psVars, slVars, mgVars, cnVars, sdVars, stVars, fqVars, dqVars>>
    \/ (\E c \in Connections : ExitAcloseOver(c)) /\ UNCHANGED <<lrVars, serverVars, sendVars, uaVars, plVars, psVars, slVars, mgVars, cnVars, sdVars, stVars, fqVars, dqVars>>
    \/ (ExitGet) /\ UNCHANGED <<lrVars, serverVars, sendVars, uaVars, plVars, psVars, slVars, mgVars, cnVars, sdVars, stVars, fqVars, dqVars>>

InitExit == ExitInit /\ LRIdle /\ ServerIdle /\ SendIdle /\ UAIdle /\ PLIdle /\ PSIdle /\ SLIdle /\ MigrateIdle /\ ConnIdle /\ ShutdownIdle /\ StallIdle /\ FQIdle /\ DrainIdle

SpecExit == InitExit /\ [][ExitNext]_vars

\* the steps of the composer and of send task k, the rest of the state left alone
StallComposerGet == StallGet /\ UNCHANGED <<lrVars, serverVars, sendVars, uaVars, plVars, psVars, slVars, mgVars, cnVars, sdVars, hxVars, fqVars, dqVars>>
StallComposerTimeout == StallBatchTimeout /\ UNCHANGED <<lrVars, serverVars, sendVars, uaVars, plVars, psVars, slVars, mgVars, cnVars, sdVars, hxVars, fqVars, dqVars>>
StallAttemptEnds(k) == (StallAttemptSucceeds(k) \/ StallAttemptFails(k)) /\ UNCHANGED <<lrVars, serverVars, sendVars, uaVars, plVars, psVars, slVars, mgVars, cnVars, sdVars, hxVars, fqVars, dqVars>>
StallSleepEnds(k) == StallWake(k) /\ UNCHANGED <<lrVars, serverVars, sendVars, uaVars, plVars, psVars, slVars, mgVars, cnVars, sdVars, hxVars, fqVars, dqVars>>

StallNext ==
    \/ StallPut /\ UNCHANGED <<lrVars, serverVars, sendVars, uaVars, plVars, psVars, slVars, mgVars, cnVars, sdVars, hxVars, fqVars, dqVars>>
    \/ StallComposerGet
    \/ StallComposerTimeout
    \/ \E k \in StallRecords : StallAttemptEnds(k)
    \/ \E k \in StallRecords : StallSleepEnds(k)

InitStall == StallInit /\ LRIdle /\ ServerIdle /\ SendIdle /\ UAIdle /\ PLIdle /\ PSIdle /\ SLIdle /\ MigrateIdle /\ ConnIdle /\ ShutdownIdle /\ ExitIdle /\ FQIdle /\ DrainIdle

\* trio runs every task that can run: an attempt ends by api_timeout at the latest, a
\* retry sleep by retry_max_wait, and the composer takes what is in the queue and
\* closes its window by batch_timeout
SpecStall ==
    /\ InitStall
    /\ [][StallNext]_vars
    /\ WF_vars(StallComposerGet)
    /\ WF_vars(StallComposerTimeout)
    /\ \A k \in StallRecords : WF_vars(StallAttemptEnds(k)) /\ WF_vars(StallSleepEnds(k))

FQNext ==
    \/ FQPutNowait /\ UNCHANGED <<lrVars, serverVars, sendVars, uaVars, plVars, psVars, slVars, mgVars, cnVars, sdVars, hxVars, stVars, dqVars>>
    \/ FQGetNowait /\ UNCHANGED <<lrVars, serverVars, sendVars, uaVars, plVars, psVars, slVars, mgVars, cnVars, sdVars, hxVars, stVars, dqVars>>

InitFQ == FQInit /\ LRIdle /\ ServerIdle /\ SendIdle /\ UAIdle /\ PLIdle /\ PSIdle /\ SLIdle /\ MigrateIdle /\ ConnIdle /\ ShutdownIdle /\ ExitIdle /\ StallIdle /\ DrainIdle

SpecFQ == InitFQ /\ [][FQNext]_vars

\* the steps of send(), the rest of the state left alone
SenderTests == SendTest /\ UNCHANGED <<lrVars, serverVars, sendVars, uaVars, plVars, psVars, slVars, mgVars, cnVars, sdVars, hxVars, stVars, fqVars>>
SenderGets == SendGet /\ UNCHANGED <<lrVars, serverVars, sendVars, uaVars, plVars, psVars, slVars, mgVars, cnVars, sdVars, hxVars, stVars, fqVars>>
SenderTimesOut == SendTimeout /\ UNCHANGED <<lrVars, serverVars, sendVars, uaVars, plVars, psVars, slVars, mgVars, cnVars, sdVars, hxVars, stVars, fqVars>>
SenderInserts == (SendInsert \/ SendInsertRaises) /\ UNCHANGED <<lrVars, serverVars, sendVars, uaVars, plVars, psVars, slVars, mgVars, cnVars, sdVars, hxVars, stVars, fqVars>>
SenderLoops == SendLoop /\ UNCHANGED <<lrVars, serverVars, sendVars, uaVars, plVars, psVars, slVars, mgVars, cnVars, sdVars, hxVars, stVars, fqVars>>
CrontabTicks == EnsureSender /\ UNCHANGED <<lrVars, serverVars, sendVars, uaVars, plVars, psVars, slVars, mgVars, cnVars, sdVars, hxVars, stVars, fqVars>>

DrainNext ==
    \/ DrainPut /\ UNCHANGED <<lrVars, serverVars, sendVars, uaVars, plVars, psVars, slVars, mgVars, cnVars, sdVars, hxVars, stVars, fqVars>>
    \/ ConnectionLost /\ UNCHANGED <<lrVars, serverVars, sendVars, uaVars, plVars, psVars, slVars, mgVars, cnVars, sdVars, hxVars, stVars, fqVars>>
    \/ CrontabTicks
    \/ SenderTests
    \/ SenderGets
    \/ SenderTimesOut
    \/ SenderInserts
    \/ SenderLoops

InitDrain == DrainInit /\ LRIdle /\ ServerIdle /\ SendIdle /\ UAIdle /\ PLIdle /\ PSIdle /\ SLIdle /\ MigrateIdle /\ ConnIdle /\ ShutdownIdle /\ ExitIdle /\ StallIdle /\ FQIdle

\* the event loop runs send() whenever it can run: a row in the queue ends the wait
\* of queue.get(), MAX_WAIT ends it when all_rows is not empty, a call of insert_all
\* ends, and the crontab ticks every 15 seconds until it is stopped
SpecDrain ==
    /\ InitDrain
    /\ [][DrainNext]_vars
    /\ WF_vars(CrontabTicks)
    /\ WF_vars(SenderTests)
    /\ WF_vars(SenderGets)
    /\ WF_vars(SenderTimesOut)
    /\ WF_vars(SenderInserts)
    /\ WF_vars(SenderLoops)

(***************************************************************************)
(* What the stream says, read off the whole stream at once.               *)
(***************************************************************************)
NewlineOffsets(s) == {i \in 1..Len(s) : s[i] = NL}

\* [i + b"\n" for i in stream.split(b"\n")[:-1]]
ExpectedLines(s) ==
    LET P == NewlineOffsets(s)
        n == Cardinality(P)
        pos(k) == IF k = 0 THEN 0
                  ELSE CHOOSE i \in P : Cardinality({j \in P : j <= i}) = k
    IN  [k \in 1..n |-> SubSeq(s, pos(k - 1) + 1, pos(k))]

\* the bytes of the stream after its last newline
TailAfterLastNewline(s) ==
    LET P == NewlineOffsets(s)
        last == IF P = {} THEN 0 ELSE CHOOSE i \in P : \A j \in P : j <= i
    IN  SubSeq(s, last + 1, Len(s))

(***************************************************************************)
(* C1. While no call has raised BufferTooLargeError, the lists returned by *)
(* the successive receive_data calls, concatenated, are exactly the        *)
(* newline-terminated lines of the stream received so far, each with its   *)
(* newline, in stream order, wherever the chunk boundaries fell.           *)
(***************************************************************************)
C1_FramesAreTheLinesOfTheStream ==
    lrState # "failed" => lrLines = ExpectedLines(lrStream)

\* two lines returned by different calls, the second one completed by a later chunk,
\* with an unfinished third line left in the buffer
C1_Witness ==
    /\ lrState = "open"
    /\ Len(lrLines) = 2
    /\ lrLast.op = "receive_data"
    /\ Len(lrLast.returned) = 1
    /\ Len(lrLast.returned[1]) >= 2
    /\ lr_buffer # <<>>

(***************************************************************************)
(* C2. A fresh receiver fed more than max_line_size bytes holding no       *)
(* newline raises BufferTooLargeError and returns no frame, for every      *)
(* max_line_size >= 1 and for the default of 16384 when it is None.        *)
(***************************************************************************)
C2_OversizedFirstChunkRaises ==
    ( /\ lrLast.op = "receive_data"
      /\ lrLast.fresh
      /\ NewlineOffsets(lrStream) = {}
      /\ Len(lrStream) >= InitMaxLineSize(lr_arg) + 1 )
    => ( /\ lrLast.result = "BufferTooLargeError"
         /\ lrLast.returned = <<>>
         /\ lrLines = <<>> )

\* the default size: 16384 + 1 zero bytes given to a receiver built with None
C2_Witness ==
    /\ lr_arg = None
    /\ lrLast.fresh
    /\ Len(lrStream) = 16385
    /\ lrLast.result = "BufferTooLargeError"

TimesInQueue(id) == Cardinality({i \in 1..Len(q) : q[i].id = id})

(***************************************************************************)
(* C4. The input queue never holds more than qsize records; a handler      *)
(* whose put finds the queue full stays where it is, with the same events  *)
(* still to put, in every step taken while the queue is full; and every    *)
(* record a handler has put is either still in the queue, once, or was     *)
(* returned by exactly one q.get() of the sender: none is discarded and    *)
(* none is delivered twice.                                                *)
(***************************************************************************)
C4_QueueBoundedAndLossless ==
    /\ [](Len(q) <= qsize)
    /\ [](\A id \in 1..MaxRecords :
             /\ putCount[id] <= 1
             /\ getCount[id] <= 1
             /\ TimesInQueue(id) + getCount[id] = putCount[id])
    /\ [][ \A h \in Connections :
              (hpc[h] = "put" /\ Len(q) >= qsize)
              => (hpc'[h] = "put" /\ hpending'[h] = hpending[h]) ]_vars

\* a handler waits in q.put on a full queue after the sender has taken a record
C4_Witness ==
    /\ Len(q) = qsize
    /\ \E h \in Connections : hpc[h] = "put"
    /\ \E id \in 1..MaxRecords : getCount[id] = 1

\* the <<task, index>> places of the rows of a list of started tasks
RowPlaces(tasks) ==
    {p \in (1..Len(tasks)) \X (1..MaxRecords) : p[2] <= Len(tasks[p[1]].batch)}

(***************************************************************************)
(* C5. The sub-batches started for a compose window hold, taken together,  *)
(* exactly one row per record the window collected: as many rows as        *)
(* records, every record (equal-valued ones counted separately) the json   *)
(* of exactly one row.                                                     *)
(***************************************************************************)
C5_OneRowPerRecord ==
    /\ Cardinality(RowPlaces(lastTasks)) = Len(lastWindow)
    /\ \A i \in 1..Len(lastWindow) :
          Cardinality({p \in RowPlaces(lastTasks) :
                          /\ lastTasks[p[1]].batch[p[2]].json.id = lastWindow[i].id
                          /\ lastTasks[p[1]].batch[p[2]].json.timestamp
                                 = lastWindow[i].timestamp}) = 1

\* a window of three records, two of them equal in every field, over two dates
C5_Witness ==
    /\ Len(lastWindow) = 3
    /\ Len(lastTasks) = 2
    /\ \E i, j \in 1..3 : i # j /\ lastWindow[i].timestamp = lastWindow[j].timestamp

\* the calendar, for the days of the timestamps the records carry
WrittenYYYYMMDD(day) ==
    CASE day = 30 -> 19700131
      [] day = 31 -> 19700201
      [] day = 789 -> 19720229

\* the UTC day number of a row's timestamp
UtcDay(row) == row.json.timestamp \div 86400

(***************************************************************************)
(* C6. Every sub-batch started for a compose window holds rows of a single *)
(* UTC day, its template suffix is that day written YYYYMMDD, and no two   *)
(* sub-batches of the window have the same suffix.                         *)
(***************************************************************************)
C6_OneDatePerInsertAll ==
    /\ \A t \in 1..Len(lastTasks) :
          /\ lastTasks[t].batch # <<>>
          /\ \A i \in 1..Len(lastTasks[t].batch) :
                /\ UtcDay(lastTasks[t].batch[i]) = UtcDay(lastTasks[t].batch[1])
                /\ lastTasks[t].template_suffix
                       = WrittenYYYYMMDD(UtcDay(lastTasks[t].batch[i]))
    /\ \A t, u \in 1..Len(lastTasks) :
          t # u => lastTasks[t].template_suffix # lastTasks[u].template_suffix

\* a window whose first and third record share a date the second does not have
C6_Witness ==
    /\ Len(lastWindow) = 3
    /\ lastWindow[1].timestamp \div 86400 = lastWindow[3].timestamp \div 86400
    /\ lastWindow[1].timestamp \div 86400 # lastWindow[2].timestamp \div 86400
    /\ Len(lastTasks) = 2

(***************************************************************************)
(* C8. Over all compose windows of a run, two rows made from distinct      *)
(* records never carry the same insertId, and a record gets one insertId.  *)
(***************************************************************************)
C8_InsertIdInjective ==
    \A r1, r2 \in issued : (r1[1] = r2[1]) <=> (r1[2] = r2[2])

\* three records sent in at least two windows, the last window holding two of one date
C8_Witness ==
    /\ Cardinality(issued) = 3
    /\ Len(lastWindow) = 2
    /\ Len(lastTasks) = 1

(***************************************************************************)
(* C7. Every attempt of a send task gives insert_all the row list of its   *)
(* first attempt: the rows the task was started with, in the same order,   *)
(* each with the same insertId, under the same template suffix.            *)
(***************************************************************************)
C7_RetriesReuseTheRows ==
    calls >= 1
    => /\ lastCall = firstCall
       /\ lastCall[1].rows = send_rows
       /\ lastCall[1].suffix = template_suffix

\* the third attempt of a task that carries two rows
C7_Witness ==
    /\ calls = 3
    /\ Len(send_rows) = 2
    /\ lastFailure # None

\* the positions of the log records of level ERROR or above
ErrorLogs == {i \in 1..Len(logs) : logs[i].level >= 40}

(***************************************************************************)
(* C9. When the sink answers every insert_all call with its transient      *)
(* error, the sleeps between attempts double from one to the next up to    *)
(* retry_max_wait, which none exceeds, and the task ends after exactly     *)
(* retry_max_attempts calls (one sleep between two consecutive calls) with *)
(* exactly one error-level log record, its last, that carries the number   *)
(* of rows; the batch is dropped and no exception leaves send_batch.       *)
(***************************************************************************)
C9_RetryExhaustion ==
    onlyTransient
    => /\ \A i \in 1..Len(sleeps) :
             /\ sleeps[i] > 0
             /\ sleeps[i] <= retry_max_wait
             /\ i > 1 => sleeps[i] = Min(2 * sleeps[i - 1], retry_max_wait)
       /\ sendState # "done" => (calls < retry_max_attempts /\ ErrorLogs = {})
       /\ sendState = "done"
          => /\ calls = retry_max_attempts
             /\ Len(sleeps) = retry_max_attempts - 1
             /\ ErrorLogs = {Len(logs)}
             /\ logs[Len(logs)].items = Len(send_rows)
             /\ lastFailure # None
             /\ ~escaped

\* the defaults: ten attempts on a batch of two rows, the last sleeps capped at 60 s
C9_Witness ==
    /\ onlyTransient
    /\ sendState = "done"
    /\ calls = 10
    /\ retry_max_wait = 60
    /\ sleeps[6] = 32
    /\ sleeps[7] = 60
    /\ Len(send_rows) = 2

\* the sink rejecting a malformed request
PermanentSinkError == [type |-> "BigQueryError", status_code |-> 400]

(***************************************************************************)
(* C10. A permanent rejection by the sink (a non-200 answer to a malformed *)
(* request) ends the send task at once, the batch dropped with one         *)
(* error-level log; a task sleeps for a retry only after a timeout, a      *)
(* broken transport, a token-fetch failure or a transient sink failure.    *)
(***************************************************************************)
C10_PermanentErrorNeverRetried ==
    /\ lastFailure = Some(PermanentSinkError)
       => (sendState = "done" /\ ErrorLogs = {Len(logs)})
    /\ sendState = "sleeping"
       => lastFailure[1] \in {[type |-> "TooSlowError", status_code |-> 0],
                              [type |-> "BrokenStreamError", status_code |-> 0],
                              [type |-> "TokenFetchError", status_code |-> 503],
                              [type |-> "BigQueryError", status_code |-> 503]}

(***************************************************************************)
(* What is said of parse_line, the parsers under it and the classifier.     *)
(***************************************************************************)
\* the last record parse_line logged
LastLog == plOutcome.logs[Len(plOutcome.logs)]

C12_ParseFailuresClassified ==
    plOutcome.caught # None
    => /\ plOutcome.caught[1].parser = "syslog"
          => /\ plOutcome.result = None
             /\ Len(plOutcome.logs) = 1
             /\ LastLog.level = LoggingERROR
             /\ LastLog.msg = "Unparseable syslog message: %r"
       /\ (/\ plOutcome.caught[1].parser = "event"
           /\ plOutcome.caught[1].exc \in {"UnparseableEvent", "ParserError"})
          => /\ plOutcome.result = None
             /\ Len(plOutcome.logs) = 1
             /\ LastLog.level = LoggingERROR
             /\ LastLog.msg = "Unparseable event: %r, exc"

(***************************************************************************)
(* C13. With a token configured, a line that does not start with the token  *)
(* bytes gives None and no log record; the test is made on the bytes, not   *)
(* on their decoding; of a line that starts with the token exactly the      *)
(* first len(token) bytes are removed and the rest is parsed.  With no      *)
(* token no line is turned away by this step and no byte is removed.        *)
(***************************************************************************)
C13_TokenAuthentication ==
    plPc # "line"
    => \A line \in {plLine}, token \in {plToken} :
          /\ (token # None /\ ~StartsWith(line, token[1]))
             => /\ plOutcome.result = None
                /\ plOutcome.logs = <<>>
                /\ plOutcome.caught = None
                /\ plLines = <<>>
          /\ (token # None /\ StartsWith(line, token[1]))
             => plOutcome = parse_line(From(line, Len(token[1])), None)
          /\ token = None
             => (syslog_parser_parse(decode(line)).tag = "raise"
                 <=> (plOutcome.caught # None /\ plOutcome.caught[1].parser = "syslog"))

\* a line that starts with the decoding of the token but not with its bytes, turned
\* away in silence
C13_Witness ==
    /\ plPc = "parsed"
    /\ plToken = Some(<<"0xFF">>)
    /\ StartsWith(plLine, <<"0xC3">> \o GoodHeader)
    /\ plOutcome.result = None
    /\ plOutcome.logs = <<>>

\* what the classifier makes of the user agent of a line the token step lets through:
\* None when the line has no event whose grammar matches
ClassifiedUserAgent(line, token) ==
    LET OfParsed(parsed) ==
            IF parsed = None THEN None
            ELSE Some([user_agent |-> Attr(parsed[1], "user_agent").text,
                       ua |-> ua_parser_parse(Attr(parsed[1], "user_agent").text,
                                              USER_AGENT_PARSERS)])
        OfSyslog(syslog) ==
            IF syslog.tag = "raise" THEN None ELSE OfParsed(MESSAGE(syslog.value.message))
    IN  IF token # None /\ ~StartsWith(line, token[1]) THEN None
        ELSE IF token # None
        THEN OfSyslog(syslog_parser_parse(decode(From(line, Len(token[1])))))
        ELSE OfSyslog(syslog_parser_parse(decode(line)))

\* the records of parse_line's log at ERROR or above
ErrorRecords == {i \in 1..Len(plOutcome.logs) : plOutcome.logs[i].level >= LoggingERROR}

(***************************************************************************)
(* C14. When the event grammar matches and the classifier raises            *)
(* UnknownUserAgentError for the user agent, the event parser returns no    *)
(* event, so that nothing is put into the queue, and exactly one log        *)
(* record of error severity, which holds the user agent, is emitted.        *)
(***************************************************************************)
C14_UnknownUserAgentDropped ==
    plPc # "line"
    => \A classified \in {ClassifiedUserAgent(plLine, plToken)} :
          (/\ classified # None
           /\ classified[1].ua.tag = "raise"
           /\ classified[1].ua.exc = "UnknownUserAgentError")
          => /\ plOutcome.result = None
             /\ plLines = <<>>
             /\ plQueue = <<>>
             /\ Cardinality(ErrorRecords) = 1
             /\ \A i \in ErrorRecords :
                   classified[1].user_agent \in Range(plOutcome.logs[i].args)

\* whether a registered parser accepts the text: a parser of USER_AGENT_PARSERS whose
\* test passes, or a format of Parser.parse that returns data
AcceptedByAFormat(user_agent) ==
    \E i \in 1..Len(Formats(user_agent)) : Formats(user_agent)[i].result.tag = "data"

AcceptedByAParser(user_agent, parsers) ==
    \/ parsers # <<>> /\ Pip6UserAgent_test(user_agent)
    \/ AcceptedByAFormat(user_agent)

(***************************************************************************)
(* C15, as claimed.  Every user agent that matches the ignore pattern makes *)
(* parse return None, also when a registered parser would accept it; every  *)
(* user agent that matches neither the ignore pattern nor a registered      *)
(* parser makes parse raise UnknownUserAgentError.                          *)
(***************************************************************************)
C15_IgnoredAlwaysDeclined ==
    (uaPc = "done" /\ uaOutcome.tag # "pending")
    => \A user_agent \in {uaText}, parsers \in {uaParsers} :
          /\ ignore_re(user_agent)
             => (uaOutcome.tag = "return" /\ uaOutcome.value = None)
          /\ (~ignore_re(user_agent) /\ ~AcceptedByAParser(user_agent, parsers))
             => (uaOutcome.tag = "raise" /\ uaOutcome.exc = "UnknownUserAgentError")

(***************************************************************************)
(* C15, amended.  Every user agent that matches the ignore pattern and      *)
(* that no registered parser accepts makes parse return None; one that a    *)
(* format of Parser.parse accepts is given that format's details although   *)
(* it matches the ignore pattern; every user agent that matches neither     *)
(* the ignore pattern nor a registered parser makes parse raise             *)
(* UnknownUserAgentError.                                                   *)
(***************************************************************************)
C15_IgnoredWhenNoParserAccepts ==
    (uaPc = "done" /\ uaOutcome.tag # "pending")
    => \A user_agent \in {uaText}, parsers \in {uaParsers} :
          /\ (ignore_re(user_agent) /\ ~AcceptedByAParser(user_agent, parsers))
             => (uaOutcome.tag = "return" /\ uaOutcome.value = None)
          /\ (/\ ignore_re(user_agent)
              /\ AcceptedByAFormat(user_agent)
              /\ ~(parsers # <<>> /\ Pip6UserAgent_test(user_agent)))
             => (uaOutcome.tag = "return" /\ uaOutcome.value # None)
          /\ (~ignore_re(user_agent) /\ ~AcceptedByAParser(user_agent, parsers))
             => (uaOutcome.tag = "raise" /\ uaOutcome.exc = "UnknownUserAgentError")

\* the tool of the test, declined
C15_Witness ==
    /\ uaPc = "done"
    /\ uaText = <<"Debian", " ", "uscan", "/", "1.0">>
    /\ uaParsers = USER_AGENT_PARSERS
    /\ uaOutcome.tag = "return"
    /\ uaOutcome.value = None

\* how a browser-style agent of the claim begins
MozillaCompatiblePrefix == <<"Mozilla", "/", "5.0", " ", "(", "compatible;", " ">>

Authenticated(line, token) ==
    IF token = None THEN Some(line)
    ELSE IF StartsWith(line, token[1]) THEN Some(From(line, Len(token[1])))
    ELSE None

\* the lines of well-formed syslog header that carry the payload
LinesCarrying(payload) ==
    {header \o payload \o ending :
        header \in {GoodHeader,
                    <<"<", "0", ">", "2000-01-01T00:00:00Z", " ", "-", " ", "linehaul", "[",
                      "1", "]", ":", " ">>},
        ending \in {<<>>, <<"\n">>}}

\* the payload of the happy path: a 2@ message, every field given
HappyPayload ==
    <<"2", "@">> \o JoinPipe(<<GoodTimestamp, <<"JP">>, GoodUrl>> \o GoodTls \o GoodProject
                             \o <<Bandersnatch>>)

(***************************************************************************)
(* C19. parse_line on a line of valid syslog header whose payload is a 2@   *)
(* message with country, URL, TLS protocol, TLS cipher, project, version    *)
(* and package type all given and a user agent a parser accepts             *)
(* (bandersnatch/2.2.1 (...)) returns one Download with these fields, the   *)
(* file name being the base name of the URL, the timestamp the payload's    *)
(* read as UTC and details.installer bandersnatch 2.2.1; nothing is logged  *)
(* at error level.                                                          *)
(***************************************************************************)
C19_HappyPathDownload ==
    (/\ plPc # "line"
     /\ Authenticated(plLine, plToken) # None
     /\ Authenticated(plLine, plToken)[1] \in LinesCarrying(HappyPayload))
    => /\ plOutcome.result # None
       /\ plOutcome.result[1].class = "Download"
       /\ plOutcome.result[1].timestamp = 1532053159
       /\ plOutcome.result[1].country_code = Some(<<"JP">>)
       /\ plOutcome.result[1].url = GoodUrl
       /\ plOutcome.result[1].tls_protocol = Some(<<"TLSv1.2">>)
       /\ plOutcome.result[1].tls_cipher = Some(<<"ECDHE-RSA-AES128-GCM-SHA256">>)
       /\ plOutcome.result[1].file
            = [filename |-> <<"cfn_flip-1.0.3.tar.gz">>,
               project |-> Some(<<"cfn-flip">>),
               version |-> Some(<<"1.0.3">>),
               type |-> Some(<<"sdist">>)]
       /\ plOutcome.result[1].details # None
       /\ plOutcome.result[1].details[1].installer
            = Some([name |-> Some(<<"bandersnatch">>), version |-> Some(<<"2.2.1">>)])
       /\ ErrorRecords = {}

\* the payloads of the null project fields: a v1 message with and without its prefix
NullFieldsPayloads ==
    {<<"1", "@">> \o JoinPipe(<<GoodTimestamp, <<>>, GoodUrl>> \o NullProject \o <<Pip18>>),
     JoinPipe(<<GoodTimestamp, <<>>, GoodUrl>> \o NullProject \o <<Pip18>>)}

(***************************************************************************)
(* C20. A v1 payload (with the prefix 1@ or with none) whose country is     *)
(* empty, whose project name, version and package type are the literal      *)
(* (null) and whose user agent is that of a pip >= 6 with its JSON parses   *)
(* to a Download whose country_code, file.project, file.version and         *)
(* file.type are null and whose details are those of the JSON (installer    *)
(* pip 18.0).                                                               *)
(***************************************************************************)
C20_NullProjectFields ==
    (/\ plPc # "line"
     /\ Authenticated(plLine, plToken) # None
     /\ \E payload \in NullFieldsPayloads :
           Authenticated(plLine, plToken)[1] \in LinesCarrying(payload))
    => /\ plOutcome.result # None
       /\ plOutcome.result[1].class = "Download"
       /\ plOutcome.result[1].country_code = None
       /\ plOutcome.result[1].file.project = None
       /\ plOutcome.result[1].file.version = None
       /\ plOutcome.result[1].file.type = None
       /\ plOutcome.result[1].details # None
       /\ plOutcome.result[1].details[1].installer
            = Some([name |-> Some(<<"pip">>), version |-> Some(<<"18.0">>)])

(***************************************************************************)
(* What is said of ParserSet.                                               *)
(***************************************************************************)
\* whether the parsers that return data for the text all return the same
AcceptingParsersAgree(parsers, user_agent) ==
    \A one, other \in Range(parsers) :
        (/\ parser_call(one, user_agent).tag = "data"
         /\ parser_call(other, user_agent).tag = "data")
        => parser_call(one, user_agent).data = parser_call(other, user_agent).data

\* whether a call over the parsers in this order ends as the last call did: the same
\* data returned, or UnableToParse raised by both
SameOutcome(parsers) ==
    /\ TryParsers(parsers, psInput, <<>>).tag = psOutcome.tag
    /\ TryParsers(parsers, psInput, <<>>).value = psOutcome.value

NullProjectNamePayload ==
    <<"2", "@">> \o JoinPipe(<<GoodTimestamp, <<"JP">>, GoodUrl>> \o GoodTls
                             \o <<<<"(null)">>, <<"1.0.3">>, <<"sdist">>, Bandersnatch>>)

(***************************************************************************)
(* C21. parse_line on a line of valid syslog header whose payload is a 2@   *)
(* download message with (null) for the project name, every other field    *)
(* valid and a user agent a parser accepts, returns None and logs exactly   *)
(* one record, of level ERROR and message "Unhandled error:"; what is       *)
(* caught is the TypeError with which the record under construction rejects *)
(* the null project.                                                        *)
(***************************************************************************)
C21_NullProjectRejectedByRecord ==
    (/\ plPc # "line"
     /\ Authenticated(plLine, plToken) # None
     /\ Authenticated(plLine, plToken)[1] \in LinesCarrying(NullProjectNamePayload))
    => \A outcome \in {plOutcome} :
          /\ outcome.result = None
          /\ outcome.raised = None
          /\ Len(outcome.logs) = 1
          /\ outcome.logs[1].name = "linehaul.server"
          /\ outcome.logs[1].level = LoggingERROR
          /\ outcome.logs[1].msg = "Unhandled error:"
          /\ outcome.caught = Some([parser |-> "event", exc |-> "TypeError"])

(***************************************************************************)
(* C29. Only Download records are emitted: whatever the line, and a line    *)
(* with a 3@simple payload among them, what parse_line returns to the       *)
(* receiver, what the receiver hands to the connection handler and what the *)
(* handler puts into the input queue is never a SimpleRequest.              *)
(***************************************************************************)
C29_OnlyDownloadsEmitted ==
    \A outcome \in {plOutcome}, lines \in {plLines}, queue \in {plQueue} :
        /\ outcome.result # None => outcome.result[1].class = "Download"
        /\ \A i \in 1..Len(lines) : lines[i].class = "Download"
        /\ \A i \in 1..Len(queue) : queue[i].class = "Download"

\* the places in the list of the parsers that return data for the text
Returning(parsers, user_agent) ==
    {i \in 1..Len(parsers) : parser_call(parsers[i], user_agent).tag = "data"}

\* the parsers tried: all of them, or those up to the first that returns
TriedBefore(parsers, user_agent) ==
    IF Returning(parsers, user_agent) = {} THEN parsers
    ELSE SubSeq(parsers, 1,
                (CHOOSE i \in Returning(parsers, user_agent) :
                    \A j \in Returning(parsers, user_agent) : i <= j) - 1)

\* the tried parsers that failed with an exception other than UnableToParse, in order
FailedAmong(parsers, user_agent) ==
    SelectSeq(parsers, LAMBDA p : /\ parser_call(p, user_agent).tag = "raise"
                                  /\ parser_call(p, user_agent).exc # "UnableToParse")

(***************************************************************************)
(* C30. A call of a ParserSet tries the registered parsers in their current *)
(* order and returns the value of the first that returns.  A parser tried   *)
(* before it that raises UnableToParse leaves no log record; one that       *)
(* raises another exception leaves exactly one record, of level ERROR, that *)
(* names the text and that parser, and is skipped as well.  When every      *)
(* parser is skipped, or none is registered, the call raises UnableToParse. *)
(***************************************************************************)
C30_Dispatch ==
    psOutcome.tag # "pending"
    => \A parsers \in {psParsers}, user_agent \in {psInput}, outcome \in {psOutcome} :
       \A skipped \in {TriedBefore(parsers, user_agent)} :
       \A failed \in {FailedAmong(skipped, user_agent)} :
          /\ IF Returning(parsers, user_agent) = {}
             THEN outcome.tag = "raise" /\ outcome.value = "UnableToParse"
             ELSE /\ outcome.tag = "return"
                  /\ outcome.value = parser_call(parsers[Len(skipped) + 1], user_agent).data
                  /\ outcome.hit = Some(parsers[Len(skipped) + 1])
          /\ Len(outcome.logs) = Len(failed)
          /\ \A i \in 1..Len(failed) :
                /\ outcome.logs[i].name = "linehaul.ua.impl"
                /\ outcome.logs[i].level = LoggingERROR
                /\ outcome.logs[i].args = <<user_agent, failed[i]>>

\* one parser declined silently, one failed and was logged, and the call raised
C30_Witness ==
    /\ psParsers = <<"parser1", "parser3">>
    /\ psInput = "four"
    /\ psOutcome.tag = "raise"
    /\ Len(psOutcome.logs) = 1

(***************************************************************************)
(* What is said of the syslog parser.                                       *)
(***************************************************************************)
(***************************************************************************)
(* C27. The syslog parser fails only with UnparseableSyslogMessage: a line  *)
(* that deviates from the grammar, one whose priority of one to three       *)
(* digits is above 191 and one whose timestamp is no ISO 8601 instant among *)
(* them, raises UnparseableSyslogMessage and nothing else; a line that is   *)
(* well formed after a priority in 0..191 gives facility = priority div 8   *)
(* and severity = priority mod 8.                                           *)
(***************************************************************************)
C27_OnlyUnparseableSyslogMessage ==
    (slPc = "done" /\ slValue = None)
    => \A line \in {slLine}, outcome \in {slOutcome} :
          /\ outcome.tag = "raise" => outcome.exc = "UnparseableSyslogMessage"
          /\ \A pri \in 0..MaxPriority, rest \in WellFormedRests :
                line = <<"<">> \o str(pri) \o <<">">> \o rest
                => /\ outcome.tag = "return"
                   /\ outcome.value.facility = pri \div 8
                   /\ outcome.value.severity = pri % 8

(***************************************************************************)
(* C28. Syslog round trip: a SyslogMessage of facility 0..23, severity      *)
(* 0..7, hostname null or printable and not "-", appname and procid         *)
(* printable and without brackets, message not empty and without newline or *)
(* tab, written as <facility*8+severity>TIMESTAMPZ HOST APP[PROCID]: MESSAGE *)
(* with "-" for a null hostname, is parsed to a value equal to it.          *)
(***************************************************************************)
C28_SyslogRoundTrip ==
    (slPc = "done" /\ slValue # None)
    => /\ slOutcome.tag = "return"
       /\ slOutcome.value = slValue[1]

\* a message of the highest priority and null hostname, written and read back
C28_Witness ==
    /\ slPc = "done"
    /\ slValue # None
    /\ slValue[1].hostname = None
    /\ slValue[1].facility = MaxFacility
    /\ slValue[1].severity = MaxSeverity
    /\ slLine[2] = "1" /\ slLine[3] = "9" /\ slLine[4] = "1"
    /\ slOutcome.tag = "return"
    /\ slOutcome.value.hostname = None

(***************************************************************************)
(* What is said of the migrator.                                            *)
(***************************************************************************)
\* the rules (a) to (e) on two column lists walked pairwise by position
RECURSIVE Compatible(_, _)
Compatible(existing, desired) ==
    /\ Len(desired) >= Len(existing)
    /\ \A i \in (Len(existing) + 1)..Len(desired) :
          desired[i].mode \in {"NULLABLE", "REPEATED"}
    /\ \A i \in 1..Len(existing) :
          /\ desired[i].name = existing[i].name
          /\ desired[i].type = existing[i].type
          /\ \/ desired[i].mode = existing[i].mode
             \/ existing[i].mode = "REQUIRED" /\ desired[i].mode = "NULLABLE"
          /\ existing[i].type = "RECORD"
             => Compatible(existing[i].fields, desired[i].fields)

(***************************************************************************)
(* C24. validate_schema(existing, desired) succeeds exactly when, the two   *)
(* lists walked pairwise by position, desired is at least as long as        *)
(* existing, each desired column past the end of existing is NULLABLE or    *)
(* REPEATED, each paired column has the same name and type, its mode is     *)
(* unchanged or goes from REQUIRED to NULLABLE, and the same holds of the    *)
(* fields of each paired RECORD column; in every other case it raises.      *)
(***************************************************************************)
C24_SchemaCompatibility ==
    mgValidation # None
    => \A existing \in {mgCurrent[1]}, desired \in {mgDesired} :
          IF Compatible(existing, desired)
          THEN mgValidation[1].tag = "return"
          ELSE mgValidation[1].tag = "raise" /\ mgValidation[1].exc = "ValueError"

\* a RECORD column kept, one of its fields changed from NULLABLE to REQUIRED, refused
C24_Witness ==
    /\ mgValidation # None
    /\ mgValidation[1].tag = "raise"
    /\ Len(mgCurrent[1]) = 1
    /\ Len(mgDesired) = 1
    /\ mgCurrent[1][1].type = "RECORD"
    /\ [mgCurrent[1][1] EXCEPT !.fields = <<>>] = [mgDesired[1] EXCEPT !.fields = <<>>]
    /\ mgCurrent[1][1].fields[1].mode = "NULLABLE"
    /\ mgDesired[1].fields[1].mode = "REQUIRED"

(***************************************************************************)
(* C25. migrate on a table that has no schema applies the desired schema    *)
(* unconditionally: update_schema is called with it whatever the modes of   *)
(* its columns, REQUIRED among them, and no compatibility error is raised.  *)
(***************************************************************************)
C25_NoSchemaAppliesUnconditionally ==
    [][(mgPc = "fetched" /\ mgTable = None)
       => /\ mgPc' = "updated"
          /\ mgUpdates' = <<mgDesired>>
          /\ mgTable' = Some(mgDesired)]_vars

\* a is the beginning of b
IsPrefix(a, b) == Len(a) <= Len(b) /\ SubSeq(b, 1, Len(a)) = a

\* C26: for one connection the lines handed to parse_line are the lines of the
\* stream in the order their newlines arrived, whatever the chunking (the first
\* of them only, once the connection was dropped for an oversized buffer); the
\* records put on the queue are the records of those lines that parse, in that
\* order, however often the handler was suspended on a full queue; and the
\* sender takes them in that order.
C26_PerConnectionOrder ==
    /\ cnState # "dropped" => cnHanded = ExpectedLines(cnStream)
    /\ cnState = "dropped" => IsPrefix(cnHanded, ExpectedLines(cnStream))
    /\ cnPut \o cnPending = EventsOf(cnHanded, cnSkipped, 0)
    /\ cnGot \o cnQueue = cnPut
    /\ \A i \in 1..Len(cnPut) : \A j \in 1..Len(cnPut) : i < j => cnPut[i].n < cnPut[j].n

\* three lines in two chunks, the second of them skipped, a suspension on the full
\* queue, and both records taken by the sender
C26_Witness ==
    /\ Len(cnGot) = 2
    /\ Len(cnHanded) = 3
    /\ cnHanded[2] = cnSkipped
    /\ cnSuspensions > 0
    /\ ~cnSuspended
    /\ cnState = "closed"

\* the records handed to a send task so far
HandedToSendTask == UNION {Range(sdTasks[k].batch) : k \in 1..Len(sdTasks)}

\* C22: on shutdown the stages stop in order: no connection is accepted after the
\* shutdown, a handler is cancelled only once the listener has stopped, and the
\* sender and its send tasks are cancelled only once every handler has finished.
C22_ShutdownOrder ==
    /\ (\E c \in Connections : sdHandler[c] = "cancelled") => sdListener = "cancelled"
    /\ (\/ sdSender \in {"cancelled", "exit"}
        \/ \E k \in 1..Len(sdTasks) : sdTasks[k].state = "cancelled")
          => /\ sdListener = "cancelled"
             /\ \A c \in Connections : sdHandler[c] \notin {"recv", "put"}

\* C23: when the supervisor has returned after a shutdown, every record that was
\* put on the queue has been handed to a send task (none is left in the queue or
\* was lost with the batch being composed), and no send task is still running.
C23_ShutdownDrains ==
    sdServer = "returned" =>
        /\ sdQueue = <<>>
        /\ \A id \in 1..sdPuts : id \in HandedToSendTask
        /\ \A k \in 1..Len(sdTasks) : sdTasks[k].state # "running"

\* the place of x in the list s of distinct elements
PlaceIn(s, x) == CHOOSE i \in 1..Len(s) : s[i] = x

\* whether the dispatch number k of a set with _optimize_every = n begins with an
\* optimization: the first dispatch at which a quarter of n is used up, and every
\* n-th dispatch after an optimization
OptimizationDue(k, n) ==
    \E first \in {(n + 3) \div 4} : k = first \/ (k > first /\ (k - first) % n = 0)

(***************************************************************************)
(* C31. Each dispatch counts one hit for the parser that returned and none  *)
(* for the others.  The dispatch at which the countdown reaches zero (the    *)
(* first after a quarter of _optimize_every dispatches, then every          *)
(* _optimize_every-th after an optimization) first sorts the parsers by      *)
(* descending hit count, parsers of equal count keeping their order,         *)
(* replaces every count c by c - floor(c / 2) and sets the countdown to      *)
(* _optimize_every; any other dispatch leaves the order alone and takes one  *)
(* off the countdown.  After every dispatch the countdown is above zero and  *)
(* at most _optimize_every.                                                  *)
(***************************************************************************)
C31_OptimizationSchedule ==
    [][psCalls' = psCalls + 1
       => \A due \in {OptimizationDue(psCalls', psOptimizeEvery)} :
          \A before \in {psParsers}, after \in {psParsers'}, counts \in {psCounts} :
             /\ \A p \in PSParserNames :
                   psCounts'[p] = (IF due THEN counts[p] - (counts[p] \div 2) ELSE counts[p])
                                     + (IF psOutcome'.hit = Some(p) THEN 1 ELSE 0)
             /\ psOutcome'.hit # None <=> psOutcome'.tag = "return"
             /\ due => /\ Len(after) = Len(before)
                       /\ Range(after) = Range(before)
                       /\ \A i \in 1..Len(after) : \A j \in (i + 1)..Len(after) :
                             \/ counts[after[i]] > counts[after[j]]
                             \/ /\ counts[after[i]] = counts[after[j]]
                                /\ PlaceIn(before, after[i]) < PlaceIn(before, after[j])
                       /\ psOptimizeIn' = 4 * psOptimizeEvery
             /\ ~due => /\ after = before
                        /\ psOptimizeIn' = psOptimizeIn - 4
             /\ 0 < psOptimizeIn'
             /\ psOptimizeIn' <= 4 * psOptimizeEvery]_vars

\* the third dispatch of a set with _optimize_every = 2 has moved the parser hit twice
\* ahead of the two registered before it, which keep their order, and has left it the
\* count 2 - 1 + 1
C31_Witness ==
    /\ psOptimizeEvery = 2
    /\ psCalls = 3
    /\ psRegistered = <<"parser1", "parser3", "parser2">>
    /\ psParsers = <<"parser2", "parser1", "parser3">>
    /\ psCounts["parser2"] = 2
    /\ psOptimizeIn = 8

\* the ids of the records of a list, and of the rows of the send tasks started for a
\* window
RecordIds(records) == {records[i].id : i \in 1..Len(records)}
TaskRecordIds(tasks) ==
    UNION {{tasks[t].batch[i].json.id : i \in 1..Len(tasks[t].batch)} : t \in 1..Len(tasks)}

(***************************************************************************)
(* C32. The open batch always holds fewer than batch_size records and a     *)
(* closed window held at most batch_size.  A dequeue appends the record to   *)
(* the batch and ends the window exactly when that makes batch_size          *)
(* records; the batch timeout ends the window with the records dequeued so   *)
(* far; nothing else ends a window.  The send tasks started for a window     *)
(* carry the records of the window, all of them, so that every record        *)
(* dequeued is in the open batch or was handed to a send task; a window      *)
(* that ends empty starts no send task.                                      *)
(***************************************************************************)
C32_BatchComposition ==
    [][\A open \in {batch}, size \in {batch_size} :
          /\ Len(open) < size
          /\ Len(batch') < size
          /\ Len(lastWindow') <= size
          /\ {id \in 1..MaxRecords : getCount'[id] > 0}
                = RecordIds(batch') \cup {p[1] : p \in issued'}
          /\ IF getCount' # getCount
             THEN \E got \in {Head(q)} :
                     /\ q' = Tail(q)
                     /\ IF Len(open) + 1 = size
                        THEN /\ batch' = <<>>
                             /\ lastWindow' = Append(open, got)
                             /\ TaskRecordIds(lastTasks') = RecordIds(Append(open, got))
                        ELSE /\ batch' = Append(open, got)
                             /\ UNCHANGED <<lastWindow, lastTasks, issued>>
             ELSE \/ UNCHANGED <<batch, lastWindow, lastTasks, issued>>
                  \/ /\ q' = q
                     /\ batch' = <<>>
                     /\ lastWindow' = open
                     /\ TaskRecordIds(lastTasks') = RecordIds(open)
                     /\ open = <<>> => (lastTasks' = <<>> /\ issued' = issued)]_vars

\* a timeout has closed a window of one record of a sender with batch_size 2, and the
\* timeout after it a window with none
C32_Witness ==
    /\ batch_size = 2
    /\ batch = <<>>
    /\ lastWindow = <<>>
    /\ lastTasks = <<>>
    /\ issued # {}
    /\ \E id \in 1..MaxRecords : getCount[id] > 0 /\ \A p \in issued : p[1] = id

(***************************************************************************)
(* C33. However the loop of a handler ends (end of stream, broken stream,    *)
(* BufferTooLargeError, TruncatedLineError or another exception of the       *)
(* read) the handler calls stream.aclose() once, and only then; no exception *)
(* leaves it, so the listener, the sender and the other handlers go on; and  *)
(* the end of a handler takes nothing out of the queue.                      *)
(***************************************************************************)
C33_HandlerExit ==
    [][/\ \A c \in Connections :
             /\ hxAclose'[c] = IF hxHandler'[c] \in {"aclose", "exit"} THEN 1 ELSE 0
             /\ hxEscaped'[c] = None
             /\ hxHandler'[c] # "cancelled"
             /\ (hxHandler'[c] # hxHandler[c] /\ hxHandler'[c] \in {"aclose", "exit"})
                   => /\ hxQueue' = hxQueue
                      /\ hxGot' = hxGot
                      /\ \A d \in Connections \ {c} :
                            hxHandler'[d] = hxHandler[d] /\ hxPending'[d] = hxPending[d]
       /\ hxServing']_vars

\* one handler has ended on a TruncatedLineError with a record of its own still in the
\* queue, after which the other handler put a record and the sender took one
C33_Witness ==
    /\ hxHandler[1] = "exit"
    /\ hxPath[1] = "TruncatedLineError"
    /\ hxLogs[1] = <<"debug">>
    /\ hxHandler[2] = "recv"
    /\ hxGot = <<<<1, 1>>>>
    /\ hxQueue = <<<<2, 2>>>>

(***************************************************************************)
(* C34. update_schema is called at most once in a run of migrate, only      *)
(* after get_schema has returned and validate_schema has accepted, and with  *)
(* the desired schema as it was given.  When validate_schema rejects,        *)
(* migrate raises, update_schema is not called and the table keeps the       *)
(* schema it had.                                                            *)
(***************************************************************************)
C34_UpdateOnlyAfterValidation ==
    [][/\ mgDesired' = mgDesired
       /\ Len(mgUpdates') <= 1
       /\ mgUpdates' # <<>>
             => /\ mgUpdates' = <<mgDesired>>
                /\ mgCurrent' # None
                /\ mgValidation' # None => mgValidation'[1].tag = "return"
                /\ mgPc' = "updated"
       /\ mgTable' # mgTable => (mgUpdates = <<>> /\ mgUpdates' = <<mgDesired>>)
       /\ (mgValidation' # None /\ mgValidation'[1].tag = "raise")
             => /\ mgPc' = "raised"
                /\ mgUpdates' = <<>>
                /\ get_schema(mgTable') = mgCurrent'
       /\ mgPc' = "fetch failed" => (mgUpdates' = <<>> /\ mgTable' = mgTable)]_vars

\* a table with a NULLABLE column, a desired schema that makes it REQUIRED: migrate has
\* raised and the table has its column as it was
C34_Witness ==
    /\ mgPc = "raised"
    /\ mgUpdates = <<>>
    /\ mgTable # None
    /\ Len(mgTable[1]) = 1
    /\ Len(mgDesired) = 1
    /\ mgTable[1][1].mode = "NULLABLE"
    /\ mgDesired[1].mode = "REQUIRED"
    /\ mgDesired[1].name = mgTable[1][1].name

(***************************************************************************)
(* C35. A send task makes at most retry_max_attempts calls of insert_all    *)
(* and sleeps at most retry_max_wait before a retry; every send task comes   *)
(* to its end, its batch sent or dropped; and whatever the send tasks are    *)
(* doing, attempting or asleep, the sender can take the next record from     *)
(* its queue and can close its window and start a further send task.        *)
(***************************************************************************)
C35_SinkNeverStalls ==
    /\ [](\A k \in 1..Len(stTasks) :
             /\ stTasks[k].calls <= stMaxAttempts
             /\ stTasks[k].attempt_number <= stMaxAttempts
             /\ \A i \in 1..Len(stTasks[k].slept) : stTasks[k].slept[i] <= stMaxWait
             /\ stTasks[k].state = "done" <=> stTasks[k].result \in {"sent", "dropped"})
    /\ \A k \in StallRecords :
          (Len(stTasks) >= k) ~> (Len(stTasks) >= k /\ stTasks[k].state = "done")
    /\ [](stQueue # <<>> => ENABLED StallComposerGet)
    /\ [](stBatch # <<>> => ENABLED StallComposerTimeout)

\* a send task asleep before its third attempt, a second one attempting, and the
\* sender with a further record in its batch
C35_Witness ==
    /\ Len(stTasks) = 2
    /\ stTasks[1].state = "sleeping"
    /\ stTasks[1].attempt_number = 3
    /\ stTasks[2].state = "attempting"
    /\ stBatch # <<>>

\* (faulty variant: every search starts at the beginning of the buffer)
RECURSIVE SearchedFromStart(_, _, _, _)
SearchedFromStart(buf, searched, base, examined) ==
    LET From0(found) ==
            IF found = -1
            THEN examined \o [i \in 1..Len(buf) |-> base + i]
            ELSE SearchedFromStart(DelPrefix(buf, found), 0, base + found + 1,
                                   examined \o [i \in 1..(found + 1) |-> base + i])
    IN  From0(Index(buf, 0))
\* the bytes the searches of one receive_data call examine, in the order they are
\* examined, as places in the stream: self._buffer.index(b"\n", self._searched) looks
\* at the bytes from offset _searched up to the newline it finds, or up to the end;
\* base is the number of bytes of the stream before the buffer
RECURSIVE Searched(_, _, _, _)
Searched(buf, searched, base, examined) ==
    LET UpTo(found) ==
            IF found = -1
            THEN examined \o [i \in 1..(Len(buf) - searched) |-> base + searched + i]
            ELSE Searched(DelPrefix(buf, found), 0, base + found + 1,
                          examined \o [i \in 1..(found + 1 - searched) |->
                                          base + searched + i])
    IN  UpTo(Index(buf, searched))

(***************************************************************************)
(* C36. After a receive_data call that returns, the buffer holds no newline, *)
(* _searched is the length of the buffer and the buffer is no longer than    *)
(* max_line_size; and the searches of the call examine the bytes of its      *)
(* chunk, each once and in order, and no byte received by an earlier call.   *)
(***************************************************************************)
C36_NeverRescans ==
    [][(lrState = "open" /\ lrLast'.op = "receive_data" /\ lrLast'.result = "returned")
       => /\ NL \notin Range(lr_buffer')
          /\ lr_searched' = Len(lr_buffer')
          /\ Len(lr_buffer') <= lr_max_line_size
          /\ \A data \in {SubSeq(lrStream', Len(lrStream) + 1, Len(lrStream'))} :
                Searched(lr_buffer \o data, lr_searched, Len(lrStream) - Len(lr_buffer), <<>>)
                   = [i \in 1..Len(data) |-> Len(lrStream) + i]]_vars

\* a call that found two lines in a chunk received with bytes already in the buffer
C36_Witness ==
    /\ lrState = "open"
    /\ lrLast.op = "receive_data"
    /\ Len(lrLast.returned) = 2
    /\ Len(lrLast.returned[1]) = 3
    /\ lr_buffer # <<>>
    /\ lr_searched = Len(lr_buffer)

(***************************************************************************)
(* C37. receive_data raises BufferTooLargeError exactly when the bytes     *)
(* left over from the earlier calls plus the whole new chunk are more than *)
(* max_line_size, before any line is taken out: the raising call returns   *)
(* no line, also the complete lines of its chunk, and leaves the chunk     *)
(* appended to the buffer, so that every later call raises again.          *)
(***************************************************************************)
C37_RaisesOnBufferPlusChunk ==
    [][ (lrState \in {"open", "failed"} /\ lrLast'.op = "receive_data")
        => LET Call(data) ==
                  /\ lrLast'.result = "BufferTooLargeError"
                        <=> Len(lr_buffer) + Len(data) > lr_max_line_size
                  /\ lrState = "open" => lr_buffer = TailAfterLastNewline(lrStream)
                  /\ lrLast'.result = "BufferTooLargeError"
                        => /\ lrLast'.returned = <<>>
                           /\ lrLines' = lrLines
                           /\ lr_buffer' = lr_buffer \o data
                           /\ lr_searched' = lr_searched
                           /\ lrState' = "failed"
                  /\ lrState = "failed" => lrLast'.result = "BufferTooLargeError"
           IN  Call(SubSeq(lrStream', Len(lrStream) + 1, Len(lrStream'))) ]_vars

\* a stream whose lines are all within max_line_size: a chunk that completes one line
\* and holds a whole second one raised, neither line was returned, and the call after
\* it raised again
C37_Witness ==
    /\ lrLast.op = "receive_data"
    /\ lrLast.result = "BufferTooLargeError"
    /\ lrLast.again
    /\ \A i \in 1..Len(ExpectedLines(lrStream)) :
          Len(ExpectedLines(lrStream)[i]) <= lr_max_line_size
    /\ Len(TailAfterLastNewline(lrStream)) <= lr_max_line_size
    /\ Len(ExpectedLines(lrStream)) = 2
    /\ lrLines = <<>>
    /\ Index(lr_buffer, 0) > 0

(***************************************************************************)
(* C38. FlowControlQueue: put_nowait always appends its item, also to a    *)
(* queue that holds maxsize items or more, and calls pause_reading exactly *)
(* when the queue is full and reading is not paused; get_nowait calls      *)
(* resume_reading exactly when reading is paused and the queue holds at    *)
(* most maxsize items after the get; the calls on the transport alternate, *)
(* pause_reading first.                                                    *)
(***************************************************************************)
C38_FlowControl ==
    /\ [][ (fqCalls' = fqCalls + 1 /\ fqLast'.op = "put_nowait")
           => /\ fqLast'.result = "returned"
              /\ fqItems' = Append(fqItems, fqLast'.item[1])
              /\ IF ~fqPaused /\ fqMaxsize > 0 /\ Len(fqItems) >= fqMaxsize
                 THEN fqTransport' = Append(fqTransport, "pause_reading")
                 ELSE fqTransport' = fqTransport ]_vars
    /\ [][ (fqCalls' = fqCalls + 1 /\ fqLast'.op = "get_nowait")
           => /\ IF fqItems = <<>>
                 THEN fqLast'.result = "QueueEmpty" /\ fqItems' = fqItems
                 ELSE /\ fqLast'.result = "returned"
                      /\ fqLast'.item = Some(Head(fqItems))
                      /\ fqItems' = Tail(fqItems)
              /\ IF fqPaused /\ Len(fqItems') <= fqMaxsize
                 THEN fqTransport' = Append(fqTransport, "resume_reading")
                 ELSE fqTransport' = fqTransport ]_vars
    /\ [](\A i \in 1..Len(fqTransport) :
             fqTransport[i] = IF i % 2 = 1 THEN "pause_reading" ELSE "resume_reading")
    /\ [](fqPaused <=> Len(fqTransport) % 2 = 1)

\* a put into a queue that was full and paused earlier, resumed by a get and paused
\* again, which now holds more than maxsize items
C38_Witness ==
    /\ fqLast.op = "put_nowait"
    /\ fqMaxsize > 0
    /\ Len(fqItems) > fqMaxsize
    /\ fqTransport = <<"pause_reading", "resume_reading", "pause_reading">>
    /\ fqPaused

\* the rows given to insert_all so far
InsertedRows == UNION {Range(dqInserted[i]) : i \in 1..Len(dqInserted)}

(***************************************************************************)
(* C39. send() keeps processing while the queue is not closed or not       *)
(* empty; once the queue is closed, a running send() gives every row that  *)
(* was still in the queue to insert_all and returns (unless insert_all     *)
(* raised), so it does not wait forever on a closed, empty queue; put and  *)
(* put_nowait on the closed queue raise QueueClosed and add nothing.       *)
(***************************************************************************)
C39_SendDrainsAndStops ==
    /\ [][ (dqSender = "test" /\ dqSender' # dqSender)
           => dqSender' = IF ~dqClosed \/ dqItems # <<>> THEN "get" ELSE "returned" ]_vars
    /\ [][ (dqPuts' = dqPuts + 1 /\ dqClosed)
           => dqLast'.result = "QueueClosed" /\ dqItems' = dqItems ]_vars
    /\ (dqClosed /\ dqSender \in {"test", "get", "insert"})
          ~> \/ dqSender = "raised"
             \/ dqSender = "returned" /\ Range(dqAtClose) \subseteq InsertedRows

\* send() is waiting in queue.get() with nothing collected, on a closed and empty queue
C39_WaitsOnClosedEmptyQueue ==
    dqClosed /\ dqItems = <<>> /\ dqSender = "get" /\ dqAllRows = <<>>

\* the send tasks that are not over, and the events held in the queue, in the batch
\* the sender is composing and in the batches of the send tasks that are not over
LiveSendTasks == {k \in 1..Len(stTasks) : stTasks[k].state # "done"}

RECURSIVE HeldBySendTasks(_)
HeldBySendTasks(k) ==
    IF k = 0 THEN 0
    ELSE HeldBySendTasks(k - 1)
            + (IF stTasks[k].state # "done" THEN Len(stTasks[k].batch) ELSE 0)

BufferedEvents == Len(stQueue) + Len(stBatch) + HeldBySendTasks(Len(stTasks))

\* every send task that was started comes to its end
SendTasksEnd ==
    \A k \in StallRecords :
        (Len(stTasks) >= k) ~> (Len(stTasks) >= k /\ stTasks[k].state = "done")

====
